---- MODULE Spec2Model ----
(***************************************************************************)
(* Client storage of the MySQL datastore (mysql_clients.py): the clients   *)
(* table with its history pointers, the snapshot / startup / crash / stats *)
(* history tables, the keyword and label indexes, the fleet statistics     *)
(* and the batched stats deletion.  Every public method runs in one        *)
(* transaction (WithTransaction), so a method is one atomic action: it     *)
(* either commits all its statements or, on an exception, none of them.    *)
(***************************************************************************)
EXTENDS Integers, Sequences, FiniteSets, TLC

\* ------------------------------------------------------------------ bounds
MaxTime == 2
MaxRows == 2

\* SQL NULL / Python None in a timestamp column or argument.
NULL == -1
\* SQL NULL / Python None in a blob or string column or argument.
None == "None"

ClientIds == {1, 2}
\* Values NOW(6) takes while the model runs.
Clock == 1..MaxTime
\* Timestamps a caller may put on a snapshot handed to the bulk writer; the
\* caller chooses them, so they may lie ahead of the server clock.
Timestamps == 1..(MaxTime + 1)

\* Snapshot payloads, with the three identity fields the code reads from them.
Snapshots ==
  { [os |-> "Linux", version |-> "v1", uname |-> "Linux-5", boot |-> "boot1"],
    [os |-> "Windows", version |-> "v2", uname |-> "Windows-10",
     boot |-> "boot2"] }
\* Startup infos written on their own, and crash infos.
StartupInfos == {"boot3"}
CrashInfos == {"crash1"}

VARIABLES
  now,                \* the server clock, NOW(6)
  clients,            \* table clients: client_id -> row
  snapshot_history,   \* table client_snapshot_history: set of rows
  startup_history,    \* table client_startup_history: set of rows
  crash_history,      \* table client_crash_history: set of rows
  client_stats,       \* table client_stats: set of rows
  client_keywords,    \* table client_keywords: set of rows
  client_labels,      \* table client_labels: set of rows
  purge,              \* the DeleteOldClientStats generator
  inflight,           \* the calls in flight: session -> where it stands
  last                \* the last call: its name, its clients and its outcome

vars == <<now, clients, snapshot_history, startup_history, crash_history,
          client_stats, client_keywords, client_labels, purge, inflight,
          last>>

histories == <<snapshot_history, startup_history, crash_history, client_stats>>
indexes == <<client_keywords, client_labels>>

\* ------------------------------------------------------------- the schema
\* A fresh row of table clients: every column but the key defaults to NULL.
NewClient ==
  [ certificate |-> None, first_seen |-> NULL, last_ping |-> NULL,
    last_clock |-> NULL, last_ip |-> None, last_foreman |-> NULL,
    last_snapshot_timestamp |-> NULL, last_startup_timestamp |-> NULL,
    last_crash_timestamp |-> NULL, last_version_string |-> None,
    last_platform |-> None, last_platform_release |-> None,
    last_fleetspeak_validation_info |-> None ]

\* The foreign key of every history and index table: client_id must name a
\* row of table clients (else MySQL raises NO_REFERENCED_ROW_2).
ForeignKeyOk(c) == c \in DOMAIN clients

\* The primary key (client_id, timestamp) of a history table (else MySQL
\* raises a duplicate-entry IntegrityError).
HasRow(table, c, t) == \E r \in table : r.client_id = c /\ r.timestamp = t

Row(table, c, t) == CHOOSE r \in table : r.client_id = c /\ r.timestamp = t

Max(S) == CHOOSE x \in S : \A y \in S : y <= x

NoCall == [op |-> "None", client_ids |-> {}, error |-> "OK"]

Call(op, c, error) == [op |-> op, client_ids |-> {c}, error |-> error]

\* The callers that may have a call in flight at the same time.
Sessions == {1, 2}
\* A session with no call in flight.
Idle == [pc |-> "idle"]

Init ==
  /\ now = 1
  /\ clients = <<>>
  /\ snapshot_history = {}
  /\ startup_history = {}
  /\ crash_history = {}
  /\ client_stats = {}
  /\ client_keywords = {}
  /\ client_labels = {}
  /\ purge = [pc |-> "idle"]
  /\ inflight = [s \in Sessions |-> Idle]
  /\ last = NoCall

\* The server clock advances between calls.
Tick ==
  /\ now < MaxTime
  /\ now' = now + 1
  /\ last' = NoCall
  /\ UNCHANGED <<clients, histories, indexes, purge, inflight>>

\* ------------------------------------------------------ WriteClientMetadata
\* `if x:` on an RDFDatetime argument: None and the zero timestamp are falsy.
Truthy(t) == t # NULL /\ t # 0

\* The upsert that leaves last_fleetspeak_validation_info alone when the
\* caller supplies none.
MetadataUpsertKeepsValidationInfo(old, m) ==
  [old EXCEPT
     !.certificate = IF m.certificate # None THEN m.certificate ELSE @,
     !.first_seen = IF m.first_seen # NULL THEN m.first_seen ELSE @,
     !.last_ping = IF m.last_ping # NULL THEN m.last_ping ELSE @,
     !.last_clock = IF Truthy(m.last_clock) THEN m.last_clock ELSE @,
     !.last_ip = IF m.last_ip # None THEN m.last_ip ELSE @,
     !.last_foreman = IF Truthy(m.last_foreman) THEN m.last_foreman ELSE @,
     !.last_fleetspeak_validation_info =
        IF m.fleetspeak_validation_info # None
        THEN m.fleetspeak_validation_info ELSE @]

\* A full replace (REPLACE INTO clients): every column the caller does not
\* supply is back at its default.
MetadataReplace(old, m) ==
  [old EXCEPT
     !.certificate = m.certificate,
     !.first_seen = m.first_seen,
     !.last_ping = m.last_ping,
     !.last_clock = m.last_clock,
     !.last_ip = m.last_ip,
     !.last_foreman = m.last_foreman,
     !.last_fleetspeak_validation_info = m.fleetspeak_validation_info]

\* INSERT INTO clients (columns) VALUES (...) ON DUPLICATE KEY UPDATE
\* column = VALUES(column): `old` is the row before, or the fresh row; m holds
\* the optional arguments, NULL / None standing for "not supplied".
MetadataUpsert(old, m) ==
  [old EXCEPT
     !.certificate = IF m.certificate # None THEN m.certificate ELSE @,
     !.first_seen = IF m.first_seen # NULL THEN m.first_seen ELSE @,
     !.last_ping = IF m.last_ping # NULL THEN m.last_ping ELSE @,
     !.last_clock = IF Truthy(m.last_clock) THEN m.last_clock ELSE @,
     !.last_ip = IF m.last_ip # None THEN m.last_ip ELSE @,
     !.last_foreman = IF Truthy(m.last_foreman) THEN m.last_foreman ELSE @,
     !.last_fleetspeak_validation_info = m.fleetspeak_validation_info]

\* The clients table after the upsert of the row of c.
ClientsAfterUpsert(c, m) ==
  [x \in DOMAIN clients \cup {c} |->
     IF x = c
     THEN MetadataUpsert(IF c \in DOMAIN clients THEN clients[c] ELSE NewClient,
                         m)
     ELSE clients[x]]

WriteClientMetadata(c, m) ==
  /\ clients' = ClientsAfterUpsert(c, m)
  /\ last' = Call("WriteClientMetadata", c, "OK")
  /\ UNCHANGED <<now, histories, indexes, purge, inflight>>

\* The call that supplies no optional argument.
NoMetadata ==
  [ certificate |-> None, first_seen |-> NULL, last_ping |-> NULL,
    last_clock |-> NULL, last_ip |-> None, last_foreman |-> NULL,
    fleetspeak_validation_info |-> None ]

\* ------------------------------------------------------------ snapshots
\* A ClientSnapshot object: payload p of client c, carrying its startup info
\* and timestamp t (NULL while the caller has not stamped it).
ClientSnapshot(c, p, t) ==
  [ client_id |-> c, os |-> p.os, version |-> p.version, uname |-> p.uname,
    startup_info |-> p.boot, timestamp |-> t ]

\* One row of a history table.
HistoryRow(c, t, payload) ==
  [client_id |-> c, timestamp |-> t, payload |-> payload]

\* The update with a second NOW(6) in place of @now: the pointers move past
\* the timestamp the two rows were stored under.
SnapshotUpdateSecondNow(row, snapshot, t) ==
  [row EXCEPT !.last_snapshot_timestamp = t + 1,
              !.last_startup_timestamp = t + 1,
              !.last_version_string = snapshot.version,
              !.last_platform = snapshot.os,
              !.last_platform_release = snapshot.uname]

\* UPDATE clients SET ... @now ... of WriteClientSnapshot.
SnapshotUpdate(row, snapshot, t) ==
  [row EXCEPT !.last_snapshot_timestamp = t,
              !.last_startup_timestamp = t,
              !.last_version_string = snapshot.version,
              !.last_platform = snapshot.os,
              !.last_platform_release = snapshot.uname]

\* The write that stores the snapshot row without its startup row.
WriteClientSnapshotAlone(snapshot) ==
  LET c == snapshot.client_id
      error == IF ~ForeignKeyOk(c) THEN "UnknownClientError"
               ELSE IF HasRow(snapshot_history, c, now) THEN "IntegrityError"
               ELSE "OK"
  IN /\ last' = Call("WriteClientSnapshot", c, error)
     /\ IF error = "OK"
        THEN /\ snapshot_history' = snapshot_history \cup
                  {HistoryRow(c, now, [snapshot EXCEPT !.startup_info = None])}
             /\ clients' = [clients EXCEPT
                              ![c] = SnapshotUpdate(@, snapshot, now)]
        ELSE UNCHANGED <<clients, snapshot_history>>
     /\ UNCHANGED <<now, startup_history, crash_history, client_stats,
                    indexes, purge, inflight>>

WriteClientSnapshot(snapshot) ==
  LET c == snapshot.client_id
      startup_info == snapshot.startup_info
      error == IF ~ForeignKeyOk(c) THEN "UnknownClientError"
               ELSE IF HasRow(snapshot_history, c, now)
                       \/ HasRow(startup_history, c, now)
                    THEN "IntegrityError"
                    ELSE "OK"
  IN /\ last' = Call("WriteClientSnapshot", c, error)
     /\ IF error = "OK"
        THEN /\ snapshot_history' = snapshot_history \cup
                  {HistoryRow(c, now, [snapshot EXCEPT !.startup_info = None])}
             /\ startup_history' = startup_history \cup
                  {HistoryRow(c, now, startup_info)}
             /\ clients' = [clients EXCEPT
                              ![c] = SnapshotUpdate(@, snapshot, now)]
        ELSE UNCHANGED <<clients, snapshot_history, startup_history>>
     /\ UNCHANGED <<now, crash_history, client_stats, indexes, purge, inflight>>

\* The loop of WriteClientSnapshotHistory: the two INSERTs of every snapshot
\* of the batch, in order, stopping at the first IntegrityError.
RECURSIVE InsertSnapshots(_, _, _)
InsertSnapshots(batch, c, acc) ==
  IF batch = <<>> \/ ~acc.ok THEN acc
  ELSE LET client == Head(batch)
           t == client.timestamp
       IN IF ~ForeignKeyOk(c) \/ HasRow(acc.sh, c, t) \/ HasRow(acc.st, c, t)
          THEN [acc EXCEPT !.ok = FALSE]
          ELSE InsertSnapshots(Tail(batch), c,
                 [ ok |-> TRUE,
                   sh |-> acc.sh \cup
                     {HistoryRow(c, t, [client EXCEPT !.startup_info = None])},
                   st |-> acc.st \cup {HistoryRow(c, t, client.startup_info)} ])

\* The bulk writer's UPDATE without its guard.
PointerGuardDropped(pointer, latest_timestamp) == TRUE

\* The guard with the comparison turned around.
PointerGuardReversed(pointer, latest_timestamp) ==
  pointer = NULL \/ pointer > latest_timestamp

\* WHERE ... AND (pointer IS NULL OR pointer < latest_timestamp)
PointerGuard(pointer, latest_timestamp) ==
  pointer = NULL \/ pointer < latest_timestamp

WriteClientSnapshotHistory(batch) ==
  LET c == batch[1].client_id
      latest_timestamp == Max({batch[i].timestamp : i \in DOMAIN batch})
      ins == InsertSnapshots(batch, c,
               [ok |-> TRUE, sh |-> snapshot_history, st |-> startup_history])
      error == IF ins.ok THEN "OK" ELSE "UnknownClientError"
  IN /\ last' = Call("WriteClientSnapshotHistory", c, error)
     /\ IF error = "OK"
        THEN /\ snapshot_history' = ins.sh
             /\ startup_history' = ins.st
             /\ clients' = [clients EXCEPT
                  ![c].last_snapshot_timestamp =
                     IF PointerGuard(@, latest_timestamp)
                     THEN latest_timestamp ELSE @,
                  ![c].last_startup_timestamp =
                     IF PointerGuard(@, latest_timestamp)
                     THEN latest_timestamp ELSE @]
        ELSE UNCHANGED <<clients, snapshot_history, startup_history>>
     /\ UNCHANGED <<now, crash_history, client_stats, indexes, purge, inflight>>

\* --------------------------------------------------- startup, crash, stats
WriteClientStartupInfo(c, startup_info) ==
  LET error == IF ~ForeignKeyOk(c) \/ HasRow(startup_history, c, now)
               THEN "UnknownClientError" ELSE "OK"
  IN /\ last' = Call("WriteClientStartupInfo", c, error)
     /\ IF error = "OK"
        THEN /\ startup_history' = startup_history \cup
                  {HistoryRow(c, now, startup_info)}
             /\ clients' = [clients EXCEPT ![c].last_startup_timestamp = now]
        ELSE UNCHANGED <<clients, startup_history>>
     /\ UNCHANGED <<now, snapshot_history, crash_history, client_stats,
                    indexes, purge, inflight>>

WriteClientCrashInfo(c, crash_info) ==
  LET error == IF ~ForeignKeyOk(c) \/ HasRow(crash_history, c, now)
               THEN "UnknownClientError" ELSE "OK"
  IN /\ last' = Call("WriteClientCrashInfo", c, error)
     /\ IF error = "OK"
        THEN /\ crash_history' = crash_history \cup
                  {HistoryRow(c, now, crash_info)}
             /\ clients' = [clients EXCEPT ![c].last_crash_timestamp = now]
        ELSE UNCHANGED <<clients, crash_history>>
     /\ UNCHANGED <<now, snapshot_history, startup_history,
                    client_stats, indexes, purge, inflight>>

\* The error kind WriteClientStats reports for a failed foreign key.
StatsErrorUntranslated(c) ==
  IF ~ForeignKeyOk(c) THEN "IntegrityError" ELSE "OK"

StatsError(c) == IF ~ForeignKeyOk(c) THEN "UnknownClientError" ELSE "OK"

\* The insert that adds a row whatever is stored (no ON DUPLICATE KEY UPDATE).
WriteClientStatsAppend(c, stats) ==
  LET stamped == IF stats.timestamp = NULL
                 THEN [stats EXCEPT !.timestamp = now] ELSE stats
      error == StatsError(c)
  IN /\ last' = Call("WriteClientStats", c, error)
     /\ IF error = "OK"
        THEN client_stats' =
               client_stats \cup {HistoryRow(c, stamped.timestamp, stamped)}
        ELSE UNCHANGED client_stats
     /\ UNCHANGED <<now, clients, snapshot_history, startup_history,
                    crash_history, indexes, purge, inflight>>

\* stats is [payload, timestamp]; a NULL timestamp is stamped with the clock.
\* INSERT ... ON DUPLICATE KEY UPDATE payload = VALUES(payload).
WriteClientStats(c, stats) ==
  LET stamped == IF stats.timestamp = NULL
                 THEN [stats EXCEPT !.timestamp = now] ELSE stats
      t == stamped.timestamp
      error == StatsError(c)
  IN /\ last' = Call("WriteClientStats", c, error)
     /\ IF error = "OK"
        THEN client_stats' =
               {r \in client_stats : ~(r.client_id = c /\ r.timestamp = t)}
               \cup {HistoryRow(c, t, stamped)}
        ELSE UNCHANGED client_stats
     /\ UNCHANGED <<now, clients, snapshot_history, startup_history,
                    crash_history, indexes, purge, inflight>>

\* ORDER BY timestamp ASC: the rows as a sequence, oldest first (rows of
\* equal timestamp in any order).
RECURSIVE OrderByTimestampAsc(_)
OrderByTimestampAsc(rows) ==
  IF rows = {} THEN <<>>
  ELSE LET first == CHOOSE r \in rows :
                      \A q \in rows : r.timestamp <= q.timestamp
       IN <<first>> \o OrderByTimestampAsc(rows \ {first})

\* ReadClientStats: the payloads of the client's rows with timestamp BETWEEN
\* min_timestamp AND max_timestamp, oldest first.
ReadClientStats(c, min_timestamp, max_timestamp) ==
  LET rows == {r \in client_stats :
                 /\ r.client_id = c
                 /\ min_timestamp <= r.timestamp
                 /\ r.timestamp <= max_timestamp}
      ordered == OrderByTimestampAsc(rows)
  IN [i \in DOMAIN ordered |-> ordered[i].payload]

\* ------------------------------------------------------------ DeleteClient
\* What deleting the clients row of c leaves of a table that references it:
\* the foreign keys cascade, which is how one DELETE on clients "deletes a
\* client with all associated metadata".
OnDelete(table, c) == {r \in table : r.client_id # c}

\* DeleteClient without the SELECT COUNT(*) test: the statements run on no
\* row and the call returns.
DeleteClientUnchecked(c) ==
  /\ last' = Call("DeleteClient", c, "OK")
  /\ clients' = [x \in DOMAIN clients \ {c} |-> clients[x]]
  /\ snapshot_history' = OnDelete(snapshot_history, c)
  /\ startup_history' = OnDelete(startup_history, c)
  /\ crash_history' = OnDelete(crash_history, c)
  /\ client_stats' = OnDelete(client_stats, c)
  /\ client_keywords' = OnDelete(client_keywords, c)
  /\ client_labels' = OnDelete(client_labels, c)
  /\ UNCHANGED <<now, purge, inflight>>

\* DeleteClient without its DELETE statement: the pointers are cleared and
\* the row stays.
DeleteClientKeepsRow(c) ==
  LET error == IF c \notin DOMAIN clients THEN "UnknownClientError" ELSE "OK"
  IN /\ last' = Call("DeleteClient", c, error)
     /\ IF error = "OK"
        THEN clients' = [clients EXCEPT ![c].last_crash_timestamp = NULL,
                                        ![c].last_snapshot_timestamp = NULL,
                                        ![c].last_startup_timestamp = NULL]
        ELSE UNCHANGED clients
     /\ UNCHANGED <<now, histories, indexes, purge, inflight>>

DeleteClient(c) ==
  LET error == IF c \notin DOMAIN clients THEN "UnknownClientError" ELSE "OK"
  IN /\ last' = Call("DeleteClient", c, error)
     /\ IF error = "OK"
        THEN /\ clients' = [x \in DOMAIN clients \ {c} |-> clients[x]]
             /\ snapshot_history' = OnDelete(snapshot_history, c)
             /\ startup_history' = OnDelete(startup_history, c)
             /\ crash_history' = OnDelete(crash_history, c)
             /\ client_stats' = OnDelete(client_stats, c)
             /\ client_keywords' = OnDelete(client_keywords, c)
             /\ client_labels' = OnDelete(client_labels, c)
        ELSE UNCHANGED <<clients, histories, indexes>>
     /\ UNCHANGED <<now, purge, inflight>>

\* ------------------------------------------------------ latest-value reads
\* A result that may be None: <<>> is None, <<x>> is the object x.
Absent == <<>>
Some(x) == <<x>>

\* The rows of the join of MultiReadClientSnapshot: clients, snapshot history
\* and startup history, each history joined through its own pointer.
SnapshotJoin(client_ids) ==
  { [cid |-> c, snapshot |-> h.payload, timestamp |-> h.timestamp,
     startup_info |-> s.payload] :
      <<c, h, s>> \in
        { x \in (DOMAIN clients \cap client_ids) \X snapshot_history
                  \X startup_history :
            /\ x[2].client_id = x[1]
            /\ x[3].client_id = x[1]
            /\ clients[x[1]].last_snapshot_timestamp # NULL
            /\ clients[x[1]].last_startup_timestamp # NULL
            /\ x[2].timestamp = clients[x[1]].last_snapshot_timestamp
            /\ x[3].timestamp = clients[x[1]].last_startup_timestamp } }

\* The object built without stamping it with the row's timestamp.
SnapshotOfRowUnstamped(row) ==
  [row.snapshot EXCEPT !.startup_info = row.startup_info]

\* The snapshot object built from one row of the join.
SnapshotOfRow(row) ==
  [row.snapshot EXCEPT !.startup_info = row.startup_info,
                       !.timestamp = row.timestamp]

\* The result with only the clients the query returned a row for.
MultiReadClientSnapshotSparse(client_ids) ==
  LET rows == SnapshotJoin(client_ids)
  IN [cid \in {row.cid : row \in rows} |->
        Some(SnapshotOfRow(CHOOSE row \in rows : row.cid = cid))]

MultiReadClientSnapshot(client_ids) ==
  LET rows == SnapshotJoin(client_ids)
  IN [cid \in client_ids |->
        IF \E row \in rows : row.cid = cid
        THEN Some(SnapshotOfRow(CHOOSE row \in rows : row.cid = cid))
        ELSE Absent]

\* The join of a latest-value read of one client: clients and one history
\* table, through the pointer column.
PointerJoin(table, c, column) ==
  { r \in table : /\ c \in DOMAIN clients
                  /\ r.client_id = c
                  /\ clients[c][column] # NULL
                  /\ r.timestamp = clients[c][column] }

\* The object a latest-value read builds: the payload, stamped.
Stamped(r) == [payload |-> r.payload, timestamp |-> r.timestamp]

ReadClientStartupInfo(c) ==
  LET rows == PointerJoin(startup_history, c, "last_startup_timestamp")
  IN IF rows = {} THEN Absent ELSE Some(Stamped(CHOOSE r \in rows : TRUE))

ReadClientCrashInfo(c) ==
  LET rows == PointerJoin(crash_history, c, "last_crash_timestamp")
  IN IF rows = {} THEN Absent ELSE Some(Stamped(CHOOSE r \in rows : TRUE))

\* One ClientMetadata per requested client that has a row.
MultiReadClientMetadata(client_ids) ==
  [c \in client_ids \cap DOMAIN clients |->
     [ certificate |-> clients[c].certificate,
       first_seen |-> clients[c].first_seen,
       ping |-> clients[c].last_ping,
       clock |-> clients[c].last_clock,
       ip |-> clients[c].last_ip,
       last_foreman_time |-> clients[c].last_foreman,
       startup_info_timestamp |-> clients[c].last_startup_timestamp,
       last_crash_timestamp |-> clients[c].last_crash_timestamp,
       last_fleetspeak_validation_info |->
         clients[c].last_fleetspeak_validation_info ]]

\* ------------------------------------------------------- history reads
\* timerange: None (here <<>>) or a pair (time_from, time_to), each of which
\* may be None (here NULL).
NoTimerange == <<>>
Timeranges ==
  {NoTimerange} \cup (({NULL} \cup Timestamps) \X ({NULL} \cup Timestamps))

\* The range with time_to left out of it.
InTimerangeHalfOpen(t, timerange) ==
  timerange # NoTimerange =>
    /\ timerange[1] # NULL => t >= timerange[1]
    /\ timerange[2] # NULL => t < timerange[2]

\* if timerange: "AND timestamp >= FROM_UNIXTIME(%s)" when time_from is not
\* None, "AND timestamp <= FROM_UNIXTIME(%s)" when time_to is not None.
InTimerange(t, timerange) ==
  timerange # NoTimerange =>
    /\ timerange[1] # NULL => t >= timerange[1]
    /\ timerange[2] # NULL => t <= timerange[2]

\* ORDER BY timestamp DESC: the rows as a sequence, newest first (rows of
\* equal timestamp in any order).
RECURSIVE OrderByTimestampDesc(_)
OrderByTimestampDesc(rows) ==
  IF rows = {} THEN <<>>
  ELSE LET first == CHOOSE r \in rows :
                      \A q \in rows : q.timestamp <= r.timestamp
       IN <<first>> \o OrderByTimestampDesc(rows \ {first})

\* ReadClientSnapshotHistory: the join of the two history tables on client
\* and timestamp, filtered on the snapshot's timestamp; every row becomes a
\* snapshot with the startup info and the timestamp of the row.
ReadClientSnapshotHistory(c, timerange) ==
  LET rows == { [cid |-> c, snapshot |-> x[1].payload,
                 startup_info |-> x[2].payload, timestamp |-> x[1].timestamp] :
                  x \in { y \in snapshot_history \X startup_history :
                            /\ y[1].client_id = y[2].client_id
                            /\ y[1].timestamp = y[2].timestamp
                            /\ y[1].client_id = c
                            /\ InTimerange(y[1].timestamp, timerange) } }
      ordered == OrderByTimestampDesc(rows)
  IN [i \in DOMAIN ordered |-> SnapshotOfRow(ordered[i])]

\* ReadClientStartupInfoHistory: the startup rows of the client in the
\* range, each startup info stamped with its row's timestamp.
ReadClientStartupInfoHistory(c, timerange) ==
  LET rows == {r \in startup_history :
                 r.client_id = c /\ InTimerange(r.timestamp, timerange)}
      ordered == OrderByTimestampDesc(rows)
  IN [i \in DOMAIN ordered |-> Stamped(ordered[i])]

\* ------------------------------------------------------------- full info
\* rdf_objects.ClientMetadata built from a clients row.
ClientMetadata(row) ==
  [ certificate |-> row.certificate,
    first_seen |-> row.first_seen,
    ping |-> row.last_ping,
    clock |-> row.last_clock,
    ip |-> row.last_ip,
    last_foreman_time |-> row.last_foreman,
    startup_info_timestamp |-> row.last_startup_timestamp,
    last_crash_timestamp |-> row.last_crash_timestamp ]

\* The empty snapshot without the identifier.
EmptySnapshotAnonymous(c) ==
  [ client_id |-> 0, os |-> None, version |-> None, uname |-> None,
    startup_info |-> None, timestamp |-> NULL ]

\* rdf_objects.ClientSnapshot(client_id=cid): only the identifier is set.
EmptySnapshot(c) ==
  [ client_id |-> c, os |-> None, version |-> None, uname |-> None,
    startup_info |-> None, timestamp |-> NULL ]

\* AND c.last_ping >= FROM_UNIXTIME(%s), appended when min_last_ping is given;
\* a NULL last_ping compares as unknown and the row is left out.
MinLastPingOk(row, min_last_ping) ==
  min_last_ping = NULL \/ (row.last_ping # NULL /\ row.last_ping >= min_last_ping)

\* The rows a LEFT JOIN adds to a client: those of `table` for the client at
\* timestamp t, or one all-NULL row (Absent) when there is none.
LeftJoin(table, c, t) ==
  LET rows == {r \in table : r.client_id = c /\ t # NULL /\ r.timestamp = t}
  IN IF rows = {} THEN {Absent} ELSE {Some(r.payload) : r \in rows}

\* The rows of the query of MultiReadClientFullInfo.
FullInfoJoin(client_ids, min_last_ping) ==
  UNION { { [ cid |-> c, row |-> clients[c], client_obj |-> h,
              client_startup_obj |-> s, last_startup_obj |-> s_last,
              label |-> l ] :
              h \in LeftJoin(snapshot_history, c,
                             clients[c].last_snapshot_timestamp),
              s \in LeftJoin(startup_history, c,
                             clients[c].last_snapshot_timestamp),
              s_last \in LeftJoin(startup_history, c,
                                  clients[c].last_startup_timestamp),
              l \in IF \E x \in client_labels : x.client_id = c
                    THEN {Some(x) : x \in {y \in client_labels : y.client_id = c}}
                    ELSE {Absent} } :
          c \in {x \in DOMAIN clients \cap client_ids :
                   MinLastPingOk(clients[x], min_last_ping)} }

\* _ResponseToClientsFullInfo for the rows of one client: the object is built
\* from the first of them and every row adds its label.  A snapshot row
\* without a startup row at its timestamp makes FromSerializedBytes(None)
\* raise, written "Raises".
ClientFullInfo(rows) ==
  LET r == CHOOSE x \in rows : TRUE
      row == r.row
      l_snapshot ==
        IF r.client_obj # Absent
        THEN IF r.client_startup_obj = Absent THEN "Raises"
             ELSE [r.client_obj[1] EXCEPT
                     !.timestamp = row.last_snapshot_timestamp,
                     !.startup_info =
                        [payload |-> r.client_startup_obj[1],
                         timestamp |-> row.last_snapshot_timestamp]]
        ELSE EmptySnapshot(r.cid)
      startup_info ==
        IF r.last_startup_obj # Absent
        THEN Some([payload |-> r.last_startup_obj[1],
                   timestamp |-> row.last_startup_timestamp])
        ELSE Absent
  IN [ metadata |-> ClientMetadata(row),
       labels |-> { [name |-> x.label[1].label,
                     owner |-> x.label[1].owner_username] :
                      x \in {y \in rows : y.label # Absent} },
       last_snapshot |-> l_snapshot,
       last_startup_info |-> startup_info ]

MultiReadClientFullInfo(client_ids, min_last_ping) ==
  IF client_ids = {} THEN <<>>
  ELSE LET response == FullInfoJoin(client_ids, min_last_ping)
       IN [cid \in {r.cid : r \in response} |->
             ClientFullInfo({r \in response : r.cid = cid})]

\* ------------------------------------------------ the full-info grouper
\* if label_owner and label_name: a row's label counts when neither is NULL
\* (no label row joined) nor the empty string.
HasLabel(r) ==
  /\ r.label # Absent
  /\ r.label[1].owner_username # ""
  /\ r.label[1].label # ""

\* rdf_objects.ClientLabel(name=label_name, owner=label_owner)
ClientLabel(r) ==
  [name |-> r.label[1].label, owner |-> r.label[1].owner_username]

\* The generator that never yields the object in hand.
FlushNothing(yielded, prev_cid, c_full_info) == yielded

\* if c_full_info: yield prev_cid, c_full_info
Flush(yielded, prev_cid, c_full_info) ==
  IF c_full_info # Absent
  THEN Append(yielded, <<prev_cid, c_full_info[1]>>)
  ELSE yielded

\* The loop of _ResponseToClientsFullInfo over the rows of the response, in
\* the order they come: prev_cid and c_full_info are its two locals (NULL
\* and Absent for None), `yielded` what it has yielded so far.  A row whose
\* cid differs from prev_cid flushes the object in hand and starts a new one
\* with labels = []; every row appends its label.
RECURSIVE GroupRows(_, _, _, _)
GroupRows(response, prev_cid, c_full_info, yielded) ==
  IF response = <<>> THEN Flush(yielded, prev_cid, c_full_info)
  ELSE LET r == Head(response)
           changed == r.cid # prev_cid
           flushed == IF changed THEN Flush(yielded, prev_cid, c_full_info)
                      ELSE yielded
           current == IF changed
                      THEN [ClientFullInfo({r}) EXCEPT !.labels = <<>>]
                      ELSE c_full_info[1]
           labelled == IF HasLabel(r)
                       THEN [current EXCEPT
                               !.labels = Append(@, ClientLabel(r))]
                       ELSE current
       IN GroupRows(Tail(response), r.cid, Some(labelled), flushed)

\* _ResponseToClientsFullInfo(response): the pairs (client id, full info) it
\* yields, in order.
ResponseToClientsFullInfo(response) ==
  GroupRows(response, NULL, Absent, <<>>)

\* dict(pairs): the last pair of a key is the one that stays.
Dict(pairs) ==
  [k \in {pairs[i][1] : i \in DOMAIN pairs} |->
     pairs[Max({i \in DOMAIN pairs : pairs[i][1] = k})][2]]

\* The orders in which a query without ORDER BY may return a set of rows.
Orders(rows) ==
  {f \in [1..Cardinality(rows) -> rows] :
     \A i, j \in DOMAIN f : i # j => f[i] # f[j]}

\* MultiReadClientFullInfo as a call: the query has no ORDER BY, the engine
\* returns the joined rows in an order of its choice, and the result is
\* dict(self._ResponseToClientsFullInfo(cursor.fetchall())).
ReadClientFullInfo(client_ids, min_last_ping) ==
  /\ IF client_ids = {}
     THEN last' = [op |-> "MultiReadClientFullInfo", client_ids |-> client_ids,
                   error |-> "OK", result |-> <<>>]
     ELSE \E response \in Orders(FullInfoJoin(client_ids, min_last_ping)) :
            last' = [op |-> "MultiReadClientFullInfo",
                     client_ids |-> client_ids, error |-> "OK",
                     result |-> Dict(ResponseToClientsFullInfo(response))]
  /\ UNCHANGED <<now, clients, histories, indexes, purge, inflight>>

\* --------------------------------------------------------- keyword index
Keywords == {"k1", "k2"}

\* mysql_utils.Hash: the digest a keyword or an owner is looked up by.
Hash(text) == <<"sha256", text>>

KeywordRow(c, keyword, t) ==
  [client_id |-> c, keyword_hash |-> Hash(keyword), keyword |-> keyword,
   timestamp |-> t]

\* The error kind a batch insert reports when a foreign key fails.
BatchErrorUnknown == "AtLeastOneUnknownClientError"

\* The cross product inserted row by row outside a transaction: the rows of
\* the known clients stay although the call reports the error.
MultiAddClientKeywordsPerRow(client_ids, keywords) ==
  LET args == client_ids \X keywords
      known == {a \in args : ForeignKeyOk(a[1])}
      error == IF known = args THEN "OK" ELSE BatchErrorUnknown
  IN /\ last' = [op |-> "MultiAddClientKeywords", client_ids |-> client_ids,
                 error |-> error]
     /\ client_keywords' =
          { r \in client_keywords :
              ~\E a \in known : /\ r.client_id = a[1]
                                /\ r.keyword_hash = Hash(a[2]) }
          \cup { KeywordRow(a[1], a[2], now) : a \in known }
     /\ UNCHANGED <<now, clients, histories, client_labels, purge, inflight>>

\* The rows inserted next to the stored ones, no key being looked at.
KeywordsAppended(args) ==
  client_keywords \cup { KeywordRow(a[1], a[2], now) : a \in args }

\* The table after INSERT ... VALUES args ON DUPLICATE KEY UPDATE timestamp =
\* NOW(6): a row whose key (client_id, keyword_hash) is stored has its
\* timestamp set, any other is inserted with the column's default, NOW(6).
KeywordsUpserted(args) ==
  { r \in client_keywords :
      ~\E a \in args : /\ r.client_id = a[1]
                       /\ r.keyword_hash = Hash(a[2]) }
  \cup { KeywordRow(a[1], a[2], now) : a \in args }

\* One INSERT ... ON DUPLICATE KEY UPDATE timestamp = NOW(6) of the cross
\* product; a failed foreign key fails the statement as a whole.
MultiAddClientKeywords(client_ids, keywords) ==
  LET args == client_ids \X keywords
      error == IF client_ids = {} \/ keywords = {} THEN "OK"
               ELSE IF \E a \in args : ~ForeignKeyOk(a[1])
                    THEN BatchErrorUnknown
                    ELSE "OK"
  IN /\ last' = [op |-> "MultiAddClientKeywords", client_ids |-> client_ids,
                 error |-> error]
     /\ IF error = "OK"
        THEN client_keywords' = KeywordsUpserted(args)
        ELSE UNCHANGED client_keywords
     /\ UNCHANGED <<now, clients, histories, client_labels, purge, inflight>>

RemoveClientKeyword(c, keyword) ==
  /\ client_keywords' =
       { r \in client_keywords :
           ~(r.client_id = c /\ r.keyword_hash = Hash(keyword)) }
  /\ last' = Call("RemoveClientKeyword", c, "OK")
  /\ UNCHANGED <<now, clients, histories, client_labels, purge, inflight>>

\* The outcome of a call that returns a value: the value, or the error raised.
Returned(value) == [error |-> "OK", result |-> value]
Raised(error) == [error |-> error, result |-> <<>>]

\* SELECT keyword_hash, client_id FROM client_keywords WHERE keyword_hash IN
\* (...) [AND timestamp >= start_time], folded into result[keyword].  The
\* lists come in no stated order and are modelled as sets.  With no keyword
\* the statement reads "IN ()", which the server rejects as invalid SQL.
ListClientsForKeywords(keywords, start_time) ==
  LET hash_to_kw == {<<Hash(kw), kw>> : kw \in keywords}
      rows == { r \in client_keywords :
                  /\ \E h \in hash_to_kw : h[1] = r.keyword_hash
                  /\ Truthy(start_time) => r.timestamp >= start_time }
  IN IF keywords = {} THEN Raised("ProgrammingError")
     ELSE Returned([kw \in keywords |->
                      {r.client_id : r \in {x \in rows :
                                              <<x.keyword_hash, kw>> \in hash_to_kw}}])

\* ----------------------------------------------------------- label index
Owners == {"GRR", "bob"}
Labels == {"l1", "l2"}

LabelRow(c, owner, label) ==
  [client_id |-> c, owner_username_hash |-> Hash(owner),
   owner_username |-> owner, label |-> label]

\* The table after INSERT IGNORE of the cross product: a row that is stored
\* already is skipped, and so is one whose client has no clients row.
LabelsInserted(client_ids, owner, labels) ==
  client_labels \cup
    { LabelRow(a[1], owner, a[2]) :
        a \in {x \in client_ids \X labels : ForeignKeyOk(x[1])} }

\* One INSERT IGNORE of the cross product.  IGNORE turns the errors it can
\* ignore into warnings and skips their rows; whether a failed foreign key is
\* one of them is the server's choice (it is since MySQL 5.7, it was not for
\* InnoDB before), so the caller sees either outcome: skips_fk.
LabelsError(client_ids, labels, skips_fk) ==
  LET args == client_ids \X labels
      unknown == \E a \in args : ~ForeignKeyOk(a[1])
  IN IF client_ids = {} \/ labels = {} THEN "OK"
     ELSE IF unknown /\ ~skips_fk THEN BatchErrorUnknown
     ELSE "OK"

MultiAddClientLabels(client_ids, owner, labels, skips_fk) ==
  LET error == LabelsError(client_ids, labels, skips_fk)
  IN /\ last' = [op |-> "MultiAddClientLabels", client_ids |-> client_ids,
                 error |-> error]
     /\ IF error = "OK"
        THEN client_labels' = LabelsInserted(client_ids, owner, labels)
        ELSE UNCHANGED client_labels
     /\ UNCHANGED <<now, clients, histories, client_keywords, purge, inflight>>

\* The (owner, name) pairs in the order of Python's tuple and string
\* comparison, which sorts "GRR" before "bob".
ByOwnerAndName ==
  << [owner |-> "GRR", name |-> "l1"], [owner |-> "GRR", name |-> "l2"],
     [owner |-> "bob", name |-> "l1"], [owner |-> "bob", name |-> "l2"] >>

\* SELECT client_id, owner_username, label FROM client_labels WHERE client_id
\* IN (...), one list per requested client, sorted by (owner, name).
MultiReadClientLabels(client_ids) ==
  [c \in client_ids |->
     SelectSeq(ByOwnerAndName,
               LAMBDA k : \E r \in client_labels :
                            /\ r.client_id = c
                            /\ r.owner_username = k.owner
                            /\ r.label = k.name)]

\* The DELETE with the owner left out of its WHERE clause.
RemoveClientLabelsOfAnyOwner(c, owner, labels) ==
  /\ client_labels' =
       { r \in client_labels : ~(r.client_id = c /\ r.label \in labels) }
  /\ last' = Call("RemoveClientLabels", c, "OK")
  /\ UNCHANGED <<now, clients, histories, client_keywords, purge, inflight>>

\* DELETE FROM client_labels WHERE client_id = %s AND owner_username_hash = %s
\* AND label IN (...).  With no label the statement reads "IN ()", which the
\* server rejects as invalid SQL.
RemoveClientLabels(c, owner, labels) ==
  IF labels = {}
  THEN /\ last' = Call("RemoveClientLabels", c, "ProgrammingError")
       /\ UNCHANGED <<now, clients, histories, indexes, purge, inflight>>
  ELSE /\ client_labels' =
            { r \in client_labels :
                ~(/\ r.client_id = c
                  /\ r.owner_username_hash = Hash(owner)
                  /\ r.label \in labels) }
       /\ last' = Call("RemoveClientLabels", c, "OK")
       /\ UNCHANGED <<now, clients, histories, client_keywords, purge,
                      inflight>>

\* ---------------------------------------------------- DeleteOldClientStats
\* The rows of a DELETE whose WHERE clause has <= in place of <.
EligibleUpTo(cutoff_time) == {r \in client_stats : r.timestamp <= cutoff_time}

\* The rows DELETE ... WHERE timestamp < cutoff may take.
Eligible(cutoff_time) == {r \in client_stats : r.timestamp < cutoff_time}

\* The test with <= in place of <.
YieldsCountAlways(deleted_count) == deleted_count >= 0

\* `if deleted_count > 0: yield deleted_count`, else the generator ends.
YieldsCount(deleted_count) == deleted_count > 0

\* The caller starts the generator; nothing runs before its first next().
\* purge.n notes how many rows were eligible at that moment.
DeleteOldClientStats(cutoff_time, batch_size) ==
  /\ purge.pc # "running"
  /\ purge' = [pc |-> "running", cutoff_time |-> cutoff_time,
               batch_size |-> batch_size, yielded |-> <<>>,
               n |-> Cardinality(Eligible(cutoff_time))]
  /\ last' = [op |-> "DeleteOldClientStats", client_ids |-> {}, error |-> "OK"]
  /\ UNCHANGED <<now, clients, histories, indexes, inflight>>

\* One next() of the generator: _DeleteClientStatsBatch in its own
\* transaction, DELETE ... LIMIT batch_size taking any batch_size eligible
\* rows (all of them when there are fewer), then the yield or the end.
DeleteClientStatsBatch ==
  /\ purge.pc = "running"
  /\ \E deleted \in SUBSET Eligible(purge.cutoff_time) :
       /\ \/ Cardinality(deleted) = purge.batch_size
          \/ /\ deleted = Eligible(purge.cutoff_time)
             /\ Cardinality(deleted) < purge.batch_size
       /\ client_stats' = client_stats \ deleted
       /\ purge' = IF YieldsCount(Cardinality(deleted))
                   THEN [purge EXCEPT
                           !.yielded = Append(@, Cardinality(deleted))]
                   ELSE [purge EXCEPT !.pc = "done"]
  /\ last' = [op |-> "_DeleteClientStatsBatch", client_ids |-> {},
              error |-> "OK"]
  /\ UNCHANGED <<now, clients, snapshot_history, startup_history,
                 crash_history, indexes, inflight>>

\* ------------------------------------------------------- fleet statistics
\* One day, in clock ticks.
Day == 1

\* c.last_ping >= cutoff, where the query has >.
ActiveSinceInclusive(last_ping, timestamp_bucket) ==
  IF last_ping >= timestamp_bucket THEN 1 ELSE 0

\* CAST(c.last_ping > FROM_UNIXTIME(%s) AS UNSIGNED)
ActiveSince(last_ping, timestamp_bucket) ==
  IF last_ping > timestamp_bucket THEN 1 ELSE 0

\* now - rdfvalue.Duration.From(day_bucket, rdfvalue.DAYS)
TimestampBucket(day_bucket) == now - day_bucket * Day

\* The loop over day_buckets: timestamp_buckets, one cutoff per day bucket,
\* all taken from the one reading of the clock.
TimestampBuckets(day_buckets) ==
  [d \in day_buckets |-> TimestampBucket(d)]

\* The ping_cast_clauses: one 0/1 column days_active_N per day bucket.
DaysActive(last_ping, timestamp_buckets) ==
  [d \in DOMAIN timestamp_buckets |->
     ActiveSince(last_ping, timestamp_buckets[d])]

RECURSIVE SumOver(_, _)
\* SUM(days_active_N) over the rows of a group.
SumOver(rows, d) ==
  IF rows = {} THEN 0
  ELSE LET r == CHOOSE x \in rows : TRUE
       IN r.days_active[d] + SumOver(rows \ {r}, d)

\* The tables a query of the statistics reads.
Tables == [clients |-> clients, client_labels |-> client_labels]

\* The inner SELECT of the first query: clients LEFT JOIN client_labels
\* USING(client_id) WHERE c.last_ping IS NOT NULL AND l.owner_username = 'GRR'.
LabelledPings(db, statistic, timestamp_buckets) ==
  { [client_id |-> l.client_id,
     statistic |-> db.clients[l.client_id][statistic],
     label |-> l.label,
     days_active |-> DaysActive(db.clients[l.client_id].last_ping,
                                timestamp_buckets)] :
      l \in { x \in db.client_labels :
                /\ x.client_id \in DOMAIN db.clients
                /\ db.clients[x.client_id].last_ping # NULL
                /\ x.owner_username = "GRR" } }

\* The inner SELECT of the second query: clients WHERE last_ping IS NOT NULL.
Pings(db, statistic, timestamp_buckets) ==
  { [client_id |-> c, statistic |-> db.clients[c][statistic],
     days_active |-> DaysActive(db.clients[c].last_ping, timestamp_buckets)] :
      c \in {x \in DOMAIN db.clients : db.clients[x].last_ping # NULL} }

\* The first query and its loop of IncrementLabel: the cells
\* <<label, statistic value, day bucket>> -> count that were incremented.  A
\* row's bucket whose sum is 0 increments nothing.
LabelCells(db, statistic, timestamp_buckets) ==
  LET j == LabelledPings(db, statistic, timestamp_buckets)
      LabelSum(v, l, d) ==
        SumOver({r \in j : r.statistic = v /\ r.label = l}, d)
      cells == { <<r.label, r.statistic, d>> :
                   r \in j, d \in DOMAIN timestamp_buckets }
  IN [cell \in {x \in cells : LabelSum(x[2], x[1], x[3]) > 0} |->
        LabelSum(cell[2], cell[1], cell[3])]

\* The second query and its loop of IncrementTotal: the cells
\* <<statistic value, day bucket>> -> count that were incremented.
TotalCells(db, statistic, timestamp_buckets) ==
  LET j == Pings(db, statistic, timestamp_buckets)
      TotalSum(v, d) == SumOver({r \in j : r.statistic = v}, d)
      cells == { <<r.statistic, d>> : r \in j, d \in DOMAIN timestamp_buckets }
  IN [cell \in {x \in cells : TotalSum(x[1], x[2]) > 0} |->
        TotalSum(cell[1], cell[2])]

\* The fleet stats the builder returns when nothing is written between the
\* two queries.
CountClientStatisticByLabel(statistic, day_buckets) ==
  [ labels |-> LabelCells(Tables, statistic, TimestampBuckets(day_buckets)),
    totals |-> TotalCells(Tables, statistic, TimestampBuckets(day_buckets)) ]

CountClientPlatformsByLabel(day_buckets) ==
  /\ last' = [op |-> "CountClientPlatformsByLabel", client_ids |-> {},
              error |-> "OK", day_buckets |-> day_buckets,
              result |-> CountClientStatisticByLabel("last_platform",
                                                     day_buckets)]
  /\ UNCHANGED <<now, clients, histories, indexes, purge, inflight>>

\* ------------------------------------------------------- the history model
\* Batches handed to the bulk writer: one or two snapshots of one client.
Batches(c) ==
  UNION { [1..n -> { ClientSnapshot(c, p, t) :
                       p \in Snapshots, t \in Timestamps }]
          : n \in {1, 2} }

\* The history tables together stay within MaxRows timestamped entries (a
\* snapshot and the startup row stored with it count as one).
Entries ==
  Cardinality(startup_history) + Cardinality(crash_history)
    + Cardinality(client_stats)

Next ==
  \/ Tick
  \/ \E c \in ClientIds : WriteClientMetadata(c, NoMetadata)
  \/ \E c \in ClientIds, p \in Snapshots :
       /\ WriteClientSnapshot(ClientSnapshot(c, p, NULL))
       /\ Entries' <= MaxRows
  \/ \E c \in ClientIds : \E batch \in Batches(c) :
       /\ WriteClientSnapshotHistory(batch)
       /\ Entries' <= MaxRows
  \/ \E c \in ClientIds, si \in StartupInfos :
       /\ WriteClientStartupInfo(c, si)
       /\ Entries' <= MaxRows
  \/ \E c \in ClientIds, ci \in CrashInfos :
       /\ WriteClientCrashInfo(c, ci)
       /\ Entries' <= MaxRows
  \/ \E c \in ClientIds :
       /\ WriteClientStats(c, [payload |-> "cpu1", timestamp |-> NULL])
       /\ Entries' <= MaxRows
  \/ \E c \in ClientIds : DeleteClient(c)

Spec == Init /\ [][Next]_vars

\* ------------------------------------------------------- the index models
NextKeywords ==
  \/ Tick
  \/ \E c \in ClientIds : WriteClientMetadata(c, NoMetadata)
  \/ \E cs \in SUBSET ClientIds, ks \in SUBSET Keywords :
       MultiAddClientKeywords(cs, ks)
  \/ \E c \in ClientIds, k \in Keywords : RemoveClientKeyword(c, k)
  \/ \E c \in ClientIds : DeleteClient(c)

SpecKeywords == Init /\ [][NextKeywords]_vars

NextLabels ==
  \/ \E c \in ClientIds : WriteClientMetadata(c, NoMetadata)
  \/ \E cs \in SUBSET ClientIds, owner \in Owners, ls \in SUBSET Labels,
        skips_fk \in BOOLEAN :
       MultiAddClientLabels(cs, owner, ls, skips_fk)
  \/ \E c \in ClientIds, owner \in Owners, ls \in SUBSET Labels :
       RemoveClientLabels(c, owner, ls)
  \/ \E c \in ClientIds : DeleteClient(c)

SpecLabels == Init /\ [][NextLabels]_vars

\* ------------------------------------------------------- the purge model
MaxBatchSize == 2

StatsInputs == [payload : {"cpu1"}, timestamp : {NULL} \cup Timestamps]

\* Stats are written and clients come and go while no purge is running.
NextPurge ==
  \/ Tick
  \/ \E c \in ClientIds : purge.pc # "running" /\ WriteClientMetadata(c, NoMetadata)
  \/ \E c \in ClientIds, st \in StatsInputs :
       purge.pc # "running" /\ WriteClientStats(c, st)
  \/ \E c \in ClientIds : purge.pc # "running" /\ DeleteClient(c)
  \/ \E cutoff_time \in Timestamps \cup {MaxTime + 2},
        batch_size \in 1..MaxBatchSize :
       DeleteOldClientStats(cutoff_time, batch_size)
  \/ DeleteClientStatsBatch

SpecPurge == Init /\ [][NextPurge]_vars

\* The counts a purge yields before the writers that run beside it pause.
MaxYields == 2

\* Stats are written between the batches of a running purge as well; the
\* batch size may be 0.
NextPurgeRace ==
  \/ \E c \in ClientIds : WriteClientMetadata(c, NoMetadata)
  \/ \E c \in ClientIds, st \in StatsInputs :
       /\ purge.pc = "running" => Len(purge.yielded) < MaxYields
       /\ WriteClientStats(c, st)
  \/ \E cutoff_time \in Timestamps, batch_size \in 0..MaxBatchSize :
       DeleteOldClientStats(cutoff_time, batch_size)
  \/ DeleteClientStatsBatch

SpecPurgeRace == Init /\ [][NextPurgeRace]_vars

\* ------------------------------------------------------- the fleet model
FleetClientIds == ClientIds
DayBuckets == {1, 2}
FleetNow == MaxTime + 1
LastPings == {NULL} \cup 1..FleetNow
FleetLabels == {LabelRow(c, o, "l1") : c \in FleetClientIds, o \in Owners}

\* A fleet as WriteClientMetadata, WriteClientSnapshot and MultiAddClientLabels
\* leave it, the clock having moved on to FleetNow: every client has pinged
\* or not, and those of `snapshotted` wrote a snapshot when the clock stood
\* at 1.
InitFleet ==
  /\ now = FleetNow
  /\ \E pings \in [FleetClientIds -> LastPings],
        snapshotted \in SUBSET FleetClientIds :
     \E payloads \in [snapshotted -> Snapshots] :
       /\ clients = [c \in FleetClientIds |->
            IF c \in snapshotted
            THEN [SnapshotUpdate(NewClient,
                                 ClientSnapshot(c, payloads[c], NULL), 1)
                    EXCEPT !.last_ping = pings[c]]
            ELSE [NewClient EXCEPT !.last_ping = pings[c]]]
       /\ snapshot_history =
            { HistoryRow(c, 1, [ClientSnapshot(c, payloads[c], NULL)
                                  EXCEPT !.startup_info = None]) :
                c \in snapshotted }
       /\ startup_history =
            { HistoryRow(c, 1, payloads[c].boot) : c \in snapshotted }
  /\ crash_history = {}
  /\ client_stats = {}
  /\ client_keywords = {}
  /\ client_labels \in SUBSET FleetLabels
  /\ purge = [pc |-> "idle"]
  /\ inflight = [s \in Sessions |-> Idle]
  /\ last = NoCall

NextFleet ==
  \E day_buckets \in SUBSET DayBuckets : CountClientPlatformsByLabel(day_buckets)

SpecFleet == InitFleet /\ [][NextFleet]_vars

\* ---------------------------------------------------- the full-info model
\* The clients as the frontend and the readers see them: pings, snapshots,
\* startup infos, labels and deletions.
NextFullInfo ==
  \/ Tick
  \/ \E c \in ClientIds, p \in {NULL, now} :
       WriteClientMetadata(c, [NoMetadata EXCEPT !.last_ping = p])
  \/ \E c \in ClientIds, p \in Snapshots :
       WriteClientSnapshot(ClientSnapshot(c, p, NULL)) /\ Entries' <= MaxRows
  \/ \E c \in ClientIds, si \in StartupInfos :
       WriteClientStartupInfo(c, si) /\ Entries' <= MaxRows
  \/ \E c \in ClientIds : MultiAddClientLabels({c}, "GRR", {"l1"}, FALSE)
  \/ \E c \in ClientIds : DeleteClient(c)

SpecFullInfo == Init /\ [][NextFullInfo]_vars

\* ------------------------------------------------------ the metadata model
\* The optional arguments of WriteClientMetadata by the test the code puts
\* them to.
StringArguments == {"certificate", "last_ip", "fleetspeak_validation_info"}
TimeArguments == {"first_seen", "last_ping", "last_clock", "last_foreman"}

\* A value for an argument: timestamps are the clock's, the others are named
\* after their argument.
MetadataValue(f) ==
  CASE f = "certificate" -> "cert1"
    [] f = "last_ip" -> "ip1"
    [] f = "fleetspeak_validation_info" -> "fsvi1"
    [] OTHER -> now

\* The call that supplies exactly the arguments of `supplied`.
Metadata(supplied) ==
  [f \in StringArguments \cup TimeArguments |->
     IF f \in supplied THEN MetadataValue(f)
     ELSE IF f \in StringArguments THEN None ELSE NULL]

\* The calls the model makes: no argument, one argument, or all of them.
MetadataInputs ==
  {Metadata({})} \cup {Metadata({f}) : f \in StringArguments \cup TimeArguments}
    \cup {Metadata(StringArguments \cup TimeArguments)}

Linux == CHOOSE p \in Snapshots : p.os = "Linux"

\* The client whose metadata the model varies; the others only come and go.
Pinging == CHOOSE c \in ClientIds : \A d \in ClientIds : c <= d

NextMetadata ==
  \/ \E m \in MetadataInputs : WriteClientMetadata(Pinging, m)
  \/ \E c \in ClientIds : WriteClientMetadata(c, Metadata({}))
  \/ \E c \in ClientIds :
       WriteClientSnapshot(ClientSnapshot(c, Linux, NULL))
  \/ \E c \in ClientIds : DeleteClient(c)

SpecMetadata == Init /\ [][NextMetadata]_vars

\* ------------------------------------------ concurrent metadata writers
\* The exclusive lock InnoDB puts on a clients row (or on the gap where it
\* will be) for the statement that writes it, held until the transaction
\* ends: session s may write the row of c when no other session holds it.
RowLockFree(s, c) ==
  \A t \in Sessions \ {s} :
    ~(inflight[t].pc = "executed" /\ inflight[t].client_id = c)

\* How many sessions have executed their statement in this round.
Executed ==
  Cardinality({t \in Sessions : inflight[t].pc \in {"executed", "committed"}})

\* WithTransaction opens a transaction for a call of WriteClientMetadata.
BeginWriteClientMetadata(s, c, m) ==
  /\ inflight[s] = Idle
  /\ inflight' = [inflight EXCEPT ![s] =
       [pc |-> "begun", op |-> "WriteClientMetadata", client_id |-> c,
        m |-> m]]
  /\ last' = NoCall
  /\ UNCHANGED <<now, clients, histories, indexes, purge>>

\* cursor.execute(query, values): the one statement of the call, once the
\* row lock is free.
ExecuteWriteClientMetadata(s) ==
  /\ inflight[s].pc = "begun"
  /\ inflight[s].op = "WriteClientMetadata"
  /\ RowLockFree(s, inflight[s].client_id)
  /\ clients' = ClientsAfterUpsert(inflight[s].client_id, inflight[s].m)
  /\ inflight' = [inflight EXCEPT ![s] =
       [pc |-> "executed", op |-> @.op, client_id |-> @.client_id,
        m |-> @.m, order |-> Executed + 1]]
  /\ last' = NoCall
  /\ UNCHANGED <<now, histories, indexes, purge>>

\* WithTransaction commits and the call returns.
Commit(s) ==
  /\ inflight[s].pc = "executed"
  /\ inflight' = [inflight EXCEPT ![s].pc = "committed"]
  /\ last' = NoCall
  /\ UNCHANGED <<now, clients, histories, indexes, purge>>

\* Both callers have their results; the sessions are free for new calls.
Return ==
  /\ \A s \in Sessions : inflight[s].pc = "committed"
  /\ inflight' = [s \in Sessions |-> Idle]
  /\ last' = NoCall
  /\ UNCHANGED <<now, clients, histories, indexes, purge>>

NextMetadataRace ==
  \/ \E s \in Sessions, m \in MetadataInputs :
       BeginWriteClientMetadata(s, Pinging, m)
  \/ \E s \in Sessions : ExecuteWriteClientMetadata(s)
  \/ \E s \in Sessions : Commit(s)
  \/ Return

SpecMetadataRace == Init /\ [][NextMetadataRace]_vars

\* ------------------------------------------------ the scan of last pings
MaxClients == 3
\* The clients of the scanned table, and the last_ping values they carry.
ScanClientIds == 1..MaxClients
ScanPings == {NULL} \cup Clock
\* min_last_ping / max_last_ping: NULL stands for None (no filter).
ScanBounds == {NULL} \cup Clock
BatchSizes == 1..MaxBatchSize

\* The keyset condition that also takes the cursor's own row again.
AtOrAfterCursor(client_id, last_client_id) == client_id >= last_client_id

\* where_filters = ["client_id > %s"]
AfterCursor(client_id, last_client_id) == client_id > last_client_id

\* "last_ping >= FROM_UNIXTIME(%s)" when min_last_ping is not None, and
\* "(last_ping IS NULL OR last_ping <= FROM_UNIXTIME(%s))" when max_last_ping
\* is not None.
LastPingFilters(row, min_last_ping, max_last_ping) ==
  /\ min_last_ping # NULL =>
       (row.last_ping # NULL /\ row.last_ping >= min_last_ping)
  /\ max_last_ping # NULL =>
       (row.last_ping = NULL \/ row.last_ping <= max_last_ping)

\* ORDER BY client_id LIMIT n over a set of client ids.
OrderByClientIdLimit(ids, n) ==
  {c \in ids : Cardinality({d \in ids : d < c}) < n}

\* The batch query returning the first client id fetched in place of the
\* last one.
ReadClientLastPingsBatchFromFirst(last_client_id, count, min_last_ping, max_last_ping) ==
  LET matching == {c \in DOMAIN clients :
                     /\ AfterCursor(c, last_client_id)
                     /\ LastPingFilters(clients[c], min_last_ping,
                                        max_last_ping)}
      fetched == OrderByClientIdLimit(matching, count)
  IN  [ last_client_id |->
          IF fetched = {} THEN NULL
          ELSE CHOOSE x \in fetched : \A y \in fetched : x <= y,
        last_pings |-> [c \in fetched |-> clients[c].last_ping] ]

\* _ReadClientLastPings: one read-only transaction with one SELECT; returns
\* the last client id fetched (None, here NULL, when nothing was fetched) and
\* the dict client_id -> last_ping.
ReadClientLastPingsBatch(last_client_id, count, min_last_ping, max_last_ping) ==
  LET matching == {c \in DOMAIN clients :
                     /\ AfterCursor(c, last_client_id)
                     /\ LastPingFilters(clients[c], min_last_ping,
                                        max_last_ping)}
      fetched == OrderByClientIdLimit(matching, count)
  IN  [ last_client_id |-> IF fetched = {} THEN NULL ELSE Max(fetched),
        last_pings |-> [c \in fetched |-> clients[c].last_ping] ]

\* ReadClientLastPings is called: the generator is created with
\* last_client_id = IntToClientID(0); nothing runs before the first next().
BeginReadClientLastPings(s, min_last_ping, max_last_ping, batch_size) ==
  /\ inflight[s] = Idle
  /\ inflight' = [inflight EXCEPT ![s] =
       [pc |-> "scanning", op |-> "ReadClientLastPings",
        min_last_ping |-> min_last_ping, max_last_ping |-> max_last_ping,
        batch_size |-> batch_size, last_client_id |-> 0,
        cursors |-> <<>>, yielded |-> <<>>]]
  /\ last' = NoCall
  /\ UNCHANGED <<now, clients, histories, indexes, purge>>

\* One turn of the generator's `while True` loop: the query from the cursor,
\* the yield of a non-empty batch, and the break after a batch shorter than
\* batch_size.
StepReadClientLastPings(s) ==
  /\ inflight[s].pc = "scanning"
  /\ LET r == inflight[s]
         batch == ReadClientLastPingsBatch(r.last_client_id, r.batch_size,
                                           r.min_last_ping, r.max_last_ping)
         n == Cardinality(DOMAIN batch.last_pings)
     IN  inflight' = [inflight EXCEPT ![s] =
           [r EXCEPT
              !.pc = IF n < r.batch_size THEN "exhausted" ELSE "scanning",
              !.last_client_id = batch.last_client_id,
              !.cursors = Append(@, r.last_client_id),
              !.yielded = IF n # 0 THEN Append(@, batch.last_pings) ELSE @]]
  /\ last' = NoCall
  /\ UNCHANGED <<now, clients, histories, indexes, purge>>

\* The consumer drops the exhausted generator.
EndReadClientLastPings(s) ==
  /\ inflight[s].pc = "exhausted"
  /\ inflight' = [inflight EXCEPT ![s] = Idle]
  /\ last' = NoCall
  /\ UNCHANGED <<now, clients, histories, indexes, purge>>

\* The session that scans.
Scanner == CHOOSE s \in Sessions : \A t \in Sessions : s <= t

\* A clients table with any of the clients, each with any last_ping.
InitScan ==
  /\ now = 1
  /\ \E present \in SUBSET ScanClientIds :
       \E pings \in [present -> ScanPings] :
         clients = [c \in present |-> [NewClient EXCEPT !.last_ping = pings[c]]]
  /\ snapshot_history = {}
  /\ startup_history = {}
  /\ crash_history = {}
  /\ client_stats = {}
  /\ client_keywords = {}
  /\ client_labels = {}
  /\ purge = [pc |-> "idle"]
  /\ inflight = [s \in Sessions |-> Idle]
  /\ last = NoCall

\* Scans of a table that nothing writes meanwhile.
NextScan ==
  \/ \E min_last_ping \in ScanBounds, max_last_ping \in ScanBounds,
        batch_size \in BatchSizes :
       BeginReadClientLastPings(Scanner, min_last_ping, max_last_ping,
                                batch_size)
  \/ StepReadClientLastPings(Scanner)
  \/ EndReadClientLastPings(Scanner)

SpecScan == InitScan /\ [][NextScan]_vars

\* ------------------------------------------ concurrent snapshot writers
\* The two pointers of a clients row (both NULL when there is no row).
Pointers(c) ==
  IF c \in DOMAIN clients
  THEN [last_snapshot_timestamp |-> clients[c].last_snapshot_timestamp,
        last_startup_timestamp |-> clients[c].last_startup_timestamp]
  ELSE [last_snapshot_timestamp |-> NULL, last_startup_timestamp |-> NULL]

\* The value a guard is tested on when it is read at the start of the
\* transaction and compared in the application (read, then write).
ReadAtBegin(current, at_begin) == at_begin

\* The value the WHERE clause of an UPDATE is tested on: InnoDB evaluates it
\* on the newest committed version of the row, under the row lock.
ReadCurrent(current, at_begin) == current

\* Sessions with a transaction of WriteClientSnapshotHistory open.
Writing(s) ==
  /\ inflight[s].pc = "begun"
  /\ inflight[s].op = "WriteClientSnapshotHistory"

\* The statement a transaction is at: two INSERTs for every snapshot of the
\* batch, the two UPDATEs, then the commit.
StatementKind(r) ==
  LET n == Len(r.batch)
  IN  IF r.stmt <= 2 * n
      THEN IF r.stmt % 2 = 1 THEN "insert_snapshot" ELSE "insert_startup"
      ELSE IF r.stmt = 2 * n + 1 THEN "update_snapshot_pointer"
      ELSE IF r.stmt = 2 * n + 2 THEN "update_startup_pointer"
      ELSE "commit"

\* The snapshot the loop is at.
CurrentSnapshot(r) == r.batch[(r.stmt + 1) \div 2]

\* The next statement of s has to wait for a lock another open transaction
\* holds: an INSERT waits for an uncommitted row of the same key and, for its
\* foreign-key check, for an exclusive lock on the clients row; an UPDATE of
\* the clients row waits for any lock on it.
Blocked(s) ==
  LET r == inflight[s]
      kind == StatementKind(r)
  IN  \E o \in Sessions \ {s} :
        /\ Writing(o)
        /\ CASE kind = "insert_snapshot" ->
                  \/ inflight[o].lock = "exclusive"
                  \/ HasRow(inflight[o].inserted_snapshots, r.client_id,
                            CurrentSnapshot(r).timestamp)
             [] kind = "insert_startup" ->
                  \/ inflight[o].lock = "exclusive"
                  \/ HasRow(inflight[o].inserted_startups, r.client_id,
                            CurrentSnapshot(r).timestamp)
             [] kind \in {"update_snapshot_pointer",
                          "update_startup_pointer"} ->
                  inflight[o].lock # "none"
             [] OTHER -> FALSE

\* The transaction's record once it has ended with `pc`.
Ended(r, pc) ==
  [r EXCEPT !.pc = pc, !.lock = "none", !.inserted_snapshots = {},
            !.inserted_startups = {},
            !.order = Cardinality({t \in Sessions :
                        inflight[t].pc \in {"committed", "failed"}}) + 1]

\* WithTransaction opens a transaction for WriteClientSnapshotHistory(batch);
\* client_id and latest_timestamp are computed before the first statement.
BeginWriteClientSnapshotHistory(s, batch) ==
  LET c == batch[1].client_id
      others == {o \in Sessions \ {s} : inflight[o] # Idle}
  IN  /\ inflight[s] = Idle
      /\ inflight' = [inflight EXCEPT ![s] =
           [pc |-> "begun", op |-> "WriteClientSnapshotHistory",
            client_id |-> c, batch |-> batch,
            latest_timestamp |->
              Max({batch[i].timestamp : i \in DOMAIN batch}),
            stmt |-> 1, lock |-> "none",
            inserted_snapshots |-> {}, inserted_startups |-> {},
            at_begin |-> Pointers(c),
            prior |-> IF others = {} THEN Pointers(c)
                      ELSE inflight[CHOOSE o \in others : TRUE].prior,
            overlapped |-> \E o \in others : inflight[o].pc = "begun",
            retried |-> FALSE, order |-> 0]]
      /\ last' = NoCall
      /\ UNCHANGED <<now, clients, histories, indexes, purge>>

\* One cursor.execute of the transaction of s, or its commit.  An INSERT that
\* fails its foreign key or finds its key taken raises IntegrityError: the
\* call raises UnknownClientError and the transaction is rolled back.
ExecuteWriteClientSnapshotHistory(s) ==
  /\ Writing(s)
  /\ ~Blocked(s)
  /\ LET r == inflight[s]
         c == r.client_id
         kind == StatementKind(r)
         t == CurrentSnapshot(r).timestamp
         advance == [r EXCEPT !.stmt = @ + 1]
     IN  CASE kind = "insert_snapshot" ->
                IF ~ForeignKeyOk(c) \/ HasRow(snapshot_history, c, t)
                THEN /\ inflight' = [inflight EXCEPT ![s] = Ended(r, "failed")]
                     /\ snapshot_history' =
                          snapshot_history \ r.inserted_snapshots
                     /\ startup_history' = startup_history \ r.inserted_startups
                     /\ UNCHANGED clients
                ELSE LET row == HistoryRow(c, t,
                                  [CurrentSnapshot(r) EXCEPT
                                     !.startup_info = None])
                     IN  /\ snapshot_history' = snapshot_history \cup {row}
                         /\ inflight' = [inflight EXCEPT ![s] =
                              [advance EXCEPT
                                 !.lock = "shared",
                                 !.inserted_snapshots = @ \cup {row}]]
                         /\ UNCHANGED <<clients, startup_history>>
           [] kind = "insert_startup" ->
                IF ~ForeignKeyOk(c) \/ HasRow(startup_history, c, t)
                THEN /\ inflight' = [inflight EXCEPT ![s] = Ended(r, "failed")]
                     /\ snapshot_history' =
                          snapshot_history \ r.inserted_snapshots
                     /\ startup_history' = startup_history \ r.inserted_startups
                     /\ UNCHANGED clients
                ELSE LET row == HistoryRow(c, t,
                                  CurrentSnapshot(r).startup_info)
                     IN  /\ startup_history' = startup_history \cup {row}
                         /\ inflight' = [inflight EXCEPT ![s] =
                              [advance EXCEPT
                                 !.lock = "shared",
                                 !.inserted_startups = @ \cup {row}]]
                         /\ UNCHANGED <<clients, snapshot_history>>
           [] kind = "update_snapshot_pointer" ->
                /\ clients' = [clients EXCEPT
                     ![c].last_snapshot_timestamp =
                        IF PointerGuard(
                             ReadCurrent(@, r.at_begin.last_snapshot_timestamp),
                             r.latest_timestamp)
                        THEN r.latest_timestamp ELSE @]
                /\ inflight' = [inflight EXCEPT ![s] =
                     [advance EXCEPT !.lock = "exclusive"]]
                /\ UNCHANGED <<snapshot_history, startup_history>>
           [] kind = "update_startup_pointer" ->
                /\ clients' = [clients EXCEPT
                     ![c].last_startup_timestamp =
                        IF PointerGuard(
                             ReadCurrent(@, r.at_begin.last_startup_timestamp),
                             r.latest_timestamp)
                        THEN r.latest_timestamp ELSE @]
                /\ inflight' = [inflight EXCEPT ![s] =
                     [advance EXCEPT !.lock = "exclusive"]]
                /\ UNCHANGED <<snapshot_history, startup_history>>
           [] OTHER ->
                /\ inflight' = [inflight EXCEPT ![s] = Ended(r, "committed")]
                /\ UNCHANGED <<clients, snapshot_history, startup_history>>
  /\ last' = NoCall
  /\ UNCHANGED <<now, crash_history, client_stats, indexes, purge>>

\* Every open transaction waits for a lock of another: InnoDB rolls one of
\* them back with a deadlock error.  The executor either runs the call again
\* from its first statement or, out of retries, lets the error out.  A
\* transaction that waits has not run an UPDATE yet, so only its inserted
\* rows are undone.
Deadlock(victim, retry) ==
  /\ \E s \in Sessions : Writing(s)
  /\ \A s \in Sessions : Writing(s) => Blocked(s)
  /\ Writing(victim)
  /\ LET r == inflight[victim]
     IN  /\ inflight' = [inflight EXCEPT ![victim] =
               IF retry
               THEN [r EXCEPT !.stmt = 1, !.lock = "none",
                              !.inserted_snapshots = {},
                              !.inserted_startups = {}, !.retried = TRUE]
               ELSE Ended(r, "failed")]
         /\ snapshot_history' = snapshot_history \ r.inserted_snapshots
         /\ startup_history' = startup_history \ r.inserted_startups
  /\ last' = NoCall
  /\ UNCHANGED <<now, clients, crash_history, client_stats, indexes, purge>>

\* Every call has returned or raised.
SnapshotWritersDone ==
  \A s \in Sessions :
    /\ inflight[s].pc \in {"committed", "failed"}
    /\ inflight[s].op = "WriteClientSnapshotHistory"

\* Both callers have their outcome; the sessions are free for new calls.
ReturnWriteClientSnapshotHistory ==
  /\ SnapshotWritersDone
  /\ inflight' = [s \in Sessions |-> Idle]
  /\ last' = NoCall
  /\ UNCHANGED <<now, clients, histories, indexes, purge>>

\* No call is in flight.
Quiet == \A s \in Sessions : inflight[s] = Idle

\* The batches of the concurrent writers: one or two snapshots of the client.
RaceBatches ==
  UNION { [1..n -> {ClientSnapshot(Pinging, Linux, t) : t \in Timestamps}]
          : n \in {1, 2} }

\* The row and its pointers are set up between rounds; in a round the two
\* sessions run WriteClientSnapshotHistory for the same client.
NextSnapshotRace ==
  \/ Quiet /\ WriteClientMetadata(Pinging, NoMetadata)
  \/ Quiet /\ WriteClientSnapshot(ClientSnapshot(Pinging, Linux, NULL))
  \/ Quiet /\ \E si \in StartupInfos : WriteClientStartupInfo(Pinging, si)
  \/ Quiet /\ DeleteClient(Pinging)
  \/ \E s \in Sessions, batch \in RaceBatches :
       BeginWriteClientSnapshotHistory(s, batch)
  \/ \E s \in Sessions : ExecuteWriteClientSnapshotHistory(s)
  \/ \E victim \in Sessions, retry \in BOOLEAN : Deadlock(victim, retry)
  \/ ReturnWriteClientSnapshotHistory

SpecSnapshotRace == Init /\ [][NextSnapshotRace]_vars

\* ------------------------------------------ statistics under concurrent writes
\* A query that reads the tables as they are when it runs.
LiveRead(live, at_begin) == live

\* A query of a read-only transaction reads the tables as they were committed
\* when the transaction began.
ConsistentRead(live, at_begin) == at_begin

\* Sessions with a transaction of CountClientPlatformsByLabel open.
Counting(s) == inflight[s].op = "CountClientPlatformsByLabel"

\* WithTransaction(readonly=True) opens the transaction of
\* CountClientPlatformsByLabel(day_buckets).
BeginCountClientPlatformsByLabel(s, day_buckets) ==
  /\ inflight[s] = Idle
  /\ inflight' = [inflight EXCEPT ![s] =
       [pc |-> "begun", op |-> "CountClientPlatformsByLabel",
        statistic |-> "last_platform", day_buckets |-> day_buckets,
        at_begin |-> Tables]]
  /\ last' = NoCall
  /\ UNCHANGED <<now, clients, histories, indexes, purge>>

\* now = RDFDatetime.Now(), the timestamp_buckets, the first query and the
\* loop of IncrementLabel.
CountLabels(s) ==
  /\ inflight[s].pc = "begun"
  /\ Counting(s)
  /\ LET r == inflight[s]
         timestamp_buckets == TimestampBuckets(r.day_buckets)
     IN  inflight' = [inflight EXCEPT ![s] =
           [pc |-> "labels_counted", op |-> r.op, statistic |-> r.statistic,
            day_buckets |-> r.day_buckets, at_begin |-> r.at_begin,
            timestamp_buckets |-> timestamp_buckets,
            labels |-> LabelCells(ConsistentRead(Tables, r.at_begin),
                                  r.statistic, timestamp_buckets)]]
  /\ last' = NoCall
  /\ UNCHANGED <<now, clients, histories, indexes, purge>>

\* The second query, the loop of IncrementTotal and Build(): the call has its
\* result.
CountTotals(s) ==
  /\ inflight[s].pc = "labels_counted"
  /\ Counting(s)
  /\ LET r == inflight[s]
     IN  inflight' = [inflight EXCEPT ![s] =
           [pc |-> "returned", op |-> r.op, statistic |-> r.statistic,
            day_buckets |-> r.day_buckets, at_begin |-> r.at_begin,
            timestamp_buckets |-> r.timestamp_buckets,
            result |->
              [labels |-> r.labels,
               totals |-> TotalCells(ConsistentRead(Tables, r.at_begin),
                                     r.statistic, r.timestamp_buckets)]]]
  /\ last' = NoCall
  /\ UNCHANGED <<now, clients, histories, indexes, purge>>

\* The caller has the result; the session is free.
ReturnCountClientPlatformsByLabel(s) ==
  /\ inflight[s].pc = "returned"
  /\ Counting(s)
  /\ inflight' = [inflight EXCEPT ![s] = Idle]
  /\ last' = NoCall
  /\ UNCHANGED <<now, clients, histories, indexes, purge>>

\* The metadata of a call that supplies last_ping only.
Ping(t) == [NoMetadata EXCEPT !.last_ping = t]

\* Pings, platform and label changes and deletions, each in a transaction of
\* its own, at any point of an aggregation.
NextFleetRace ==
  \/ Tick
  \/ \E c \in ClientIds, t \in Clock : WriteClientMetadata(c, Ping(t))
  \/ /\ WriteClientSnapshot(ClientSnapshot(Pinging, Linux, NULL))
     /\ Entries' <= 1
  \/ MultiAddClientLabels({Pinging}, "GRR", {"l1"}, FALSE)
  \/ RemoveClientLabels(Pinging, "GRR", {"l1"})
  \/ DeleteClient(Pinging)
  \/ BeginCountClientPlatformsByLabel(Scanner, DayBuckets)
  \/ CountLabels(Scanner)
  \/ CountTotals(Scanner)
  \/ ReturnCountClientPlatformsByLabel(Scanner)

SpecFleetRace == Init /\ [][NextFleetRace]_vars

\* ------------------------------------------------- the row-order model
\* Clients with up to two labels each under owner GRR, read in full.
NextFullInfoOrder ==
  \/ \E c \in ClientIds : WriteClientMetadata(c, NoMetadata)
  \/ \E c \in ClientIds, labels \in SUBSET Labels :
       MultiAddClientLabels({c}, "GRR", labels, FALSE)
  \/ \E c \in ClientIds, l \in Labels : RemoveClientLabels(c, "GRR", {l})
  \/ \E c \in ClientIds : DeleteClient(c)
  \/ \E client_ids \in SUBSET ClientIds : ReadClientFullInfo(client_ids, NULL)

SpecFullInfoOrder == Init /\ [][NextFullInfoOrder]_vars

\* ------------------------------------------------- the grouper on its own
MaxResponse == 4
\* The label columns a row of the response may carry: none (both NULL), or
\* an owner and a name, either of which may be the empty string.
ResponseLabels(c) ==
  {Absent} \cup {Some(LabelRow(c, owner, label)) :
                   owner \in {"GRR", ""}, label \in {"l1", ""}}

\* The rows of a response: a client's columns, NULL snapshot columns, and
\* the label columns.
ResponseRows ==
  { [ cid |-> c, row |-> NewClient, client_obj |-> Absent,
      client_startup_obj |-> Absent, last_startup_obj |-> Absent,
      label |-> l ] : <<c, l>> \in
        UNION {{c} \X ResponseLabels(c) : c \in ClientIds} }

\* Any response of up to MaxResponse rows is handed to the grouper.
InitGrouper ==
  /\ now = 1
  /\ clients = <<>>
  /\ snapshot_history = {}
  /\ startup_history = {}
  /\ crash_history = {}
  /\ client_stats = {}
  /\ client_keywords = {}
  /\ client_labels = {}
  /\ purge = [pc |-> "idle"]
  /\ inflight = [s \in Sessions |-> Idle]
  /\ \E n \in 0..MaxResponse : \E response \in [1..n -> ResponseRows] :
       last = [op |-> "fetchall", client_ids |-> {}, error |-> "OK",
               response |-> response]

\* The generator is run to its end.
RunResponseToClientsFullInfo ==
  /\ last.op = "fetchall"
  /\ last' = [op |-> "_ResponseToClientsFullInfo", client_ids |-> {},
              error |-> "OK", response |-> last.response,
              yielded |-> ResponseToClientsFullInfo(last.response)]
  /\ UNCHANGED <<now, clients, histories, indexes, purge, inflight>>

NextGrouper == RunResponseToClientsFullInfo

SpecGrouper == InitGrouper /\ [][NextGrouper]_vars

\* ------------------------------------------------------- the stats model
\* Samples with either of two payloads, stamped by the caller or not.
StatsPayloads == {"cpu1", "cpu2"}
StatsSamples == [payload : StatsPayloads, timestamp : {NULL} \cup Timestamps]

NextStats ==
  \/ Tick
  \/ \E c \in ClientIds : WriteClientMetadata(c, NoMetadata)
  \/ \E c \in ClientIds, stats \in StatsSamples : WriteClientStats(c, stats)
  \/ \E c \in ClientIds : DeleteClient(c)

SpecStats == Init /\ [][NextStats]_vars

\* ---------------------------------------------- the repeated-add model
\* The keyword sets a caller passes: none, one keyword, or all of them.
KeywordSets == {{}, {"k1"}, Keywords}

\* Keywords and the system owner's labels are added again and again while the
\* clock runs; no row is ever removed.
NextIndexAdds ==
  \/ Tick
  \/ \E c \in ClientIds : WriteClientMetadata(c, NoMetadata)
  \/ \E cs \in SUBSET ClientIds, ks \in KeywordSets :
       MultiAddClientKeywords(cs, ks)
  \/ \E cs \in SUBSET ClientIds, ls \in SUBSET Labels, skips_fk \in BOOLEAN :
       MultiAddClientLabels(cs, "GRR", ls, skips_fk)

SpecIndexAdds == Init /\ [][NextIndexAdds]_vars

\* ------------------------------------------------ scans beside writers
\* Clients are created, ping and are deleted between the batches of a scan
\* that filters on min_last_ping at most.
NextScanRace ==
  \/ \E min_last_ping \in ScanBounds, batch_size \in BatchSizes :
       BeginReadClientLastPings(Scanner, min_last_ping, NULL, batch_size)
  \/ StepReadClientLastPings(Scanner)
  \/ EndReadClientLastPings(Scanner)
  \/ \E c \in ScanClientIds, t \in Clock : WriteClientMetadata(c, Ping(t))
  \/ \E c \in ScanClientIds : DeleteClient(c)

SpecScanRace == InitScan /\ [][NextScanRace]_vars

\* -------------------------------------------------- the removal model
\* Keywords and labels are attached one at a time and removed again.
NextIndexRemovals ==
  \/ \E c \in ClientIds : WriteClientMetadata(c, NoMetadata)
  \/ \E c \in ClientIds, k \in Keywords : MultiAddClientKeywords({c}, {k})
  \/ \E c \in ClientIds, owner \in Owners, l \in Labels :
       MultiAddClientLabels({c}, owner, {l}, FALSE)
  \/ \E c \in ClientIds, owner \in Owners, ls \in SUBSET Labels :
       RemoveClientLabels(c, owner, ls)
  \/ \E c \in ClientIds, k \in Keywords : RemoveClientKeyword(c, k)

SpecIndexRemovals == Init /\ [][NextIndexRemovals]_vars

\* ------------------------------------------------------------------ claims
PointerColumns ==
  { <<"last_snapshot_timestamp", "snapshot">>,
    <<"last_startup_timestamp", "startup">>,
    <<"last_crash_timestamp", "crash">> }

Stream(name) ==
  CASE name = "snapshot" -> snapshot_history
    [] name = "startup" -> startup_history
    [] name = "crash" -> crash_history

\* C1: in every reachable state, every non-null history pointer of a clients
\* row is the timestamp of a row of the matching history table for the same
\* client.
PointersReferenceRows ==
  \A c \in DOMAIN clients : \A pc \in PointerColumns :
    clients[c][pc[1]] # NULL => HasRow(Stream(pc[2]), c, clients[c][pc[1]])

\* A client whose three pointers are set, right after a failed call that
\* named it.
PointersReferenceRowsWitness ==
  \E c \in DOMAIN clients :
    /\ clients[c].last_snapshot_timestamp # NULL
    /\ clients[c].last_startup_timestamp # NULL
    /\ clients[c].last_crash_timestamp # NULL
    /\ last.client_ids = {c}
    /\ last.error # "OK"

\* C2 as claimed: while a clients row exists, no call lowers one of its
\* history pointers, whatever timestamps the bulk writer was given.
PointersNeverDecrease ==
  [][\A c \in DOMAIN clients \cap DOMAIN clients' : \A pc \in PointerColumns :
       clients[c][pc[1]] # NULL =>
         /\ clients'[c][pc[1]] # NULL
         /\ clients'[c][pc[1]] >= clients[c][pc[1]]]_vars

\* C2 as amended: the bulk writer never lowers a pointer, and no call lowers
\* a pointer that is not ahead of the server clock (a pointer gets ahead of
\* the clock only when the bulk writer is handed a timestamp in the future;
\* the writers that stamp with NOW(6) then set it back to the clock).
PointersNeverDecreaseUnlessAhead ==
  [][\A c \in DOMAIN clients \cap DOMAIN clients' : \A pc \in PointerColumns :
       /\ clients[c][pc[1]] # NULL
       /\ \/ clients[c][pc[1]] <= now
          \/ last'.op = "WriteClientSnapshotHistory"
       => /\ clients'[c][pc[1]] # NULL
          /\ clients'[c][pc[1]] >= clients[c][pc[1]]]_vars

\* A pointer ahead of the clock, left alone by a bulk write of an older
\* snapshot.
PointersNeverDecreaseWitness ==
  \E c \in DOMAIN clients :
    /\ last = Call("WriteClientSnapshotHistory", c, "OK")
    /\ clients[c].last_snapshot_timestamp > now
    /\ \E r \in snapshot_history :
         r.client_id = c /\ r.timestamp < clients[c].last_snapshot_timestamp

BatchTimestamps(batch) == {batch[i].timestamp : i \in DOMAIN batch}

\* C3: a successful bulk write stores every (snapshot, startup) pair of the
\* batch and sets each of the two pointers to the batch's greatest timestamp
\* if and only if the pointer was null or strictly below it; otherwise the
\* pointer keeps its value.  So the pointer ends at the greater of its old
\* value and the batch's maximum, whichever order two batches come in.
BulkWriteGuardsPointers ==
  [][\A c \in ClientIds : \A batch \in Batches(c) :
       /\ last' = Call("WriteClientSnapshotHistory", c, "OK")
       /\ WriteClientSnapshotHistory(batch)
       =>
         LET m == Max(BatchTimestamps(batch))
             Guarded(old, new) ==
               IF old = NULL \/ old < m THEN new = m ELSE new = old
         IN /\ \A i \in DOMAIN batch :
                 /\ HistoryRow(c, batch[i].timestamp,
                      [batch[i] EXCEPT !.startup_info = None])
                      \in snapshot_history'
                 /\ HistoryRow(c, batch[i].timestamp, batch[i].startup_info)
                      \in startup_history'
            /\ Guarded(clients[c].last_snapshot_timestamp,
                       clients'[c].last_snapshot_timestamp)
            /\ Guarded(clients[c].last_startup_timestamp,
                       clients'[c].last_startup_timestamp)]_vars

\* After a successful bulk write the client holds two snapshots and the
\* pointer is at the newer one (the 5-then-3 and 3-then-5 cases).
BulkWriteGuardsPointersWitness ==
  \E c \in DOMAIN clients :
    /\ last = Call("WriteClientSnapshotHistory", c, "OK")
    /\ Cardinality({r \in snapshot_history : r.client_id = c}) >= 2
    /\ clients[c].last_snapshot_timestamp =
         Max({r.timestamp : r \in {x \in snapshot_history : x.client_id = c}})

\* The newest snapshot of a batch, as a latest-value read would return it.
Newest(batch) ==
  CHOOSE x \in {batch[i] : i \in DOMAIN batch} :
    x.timestamp = Max(BatchTimestamps(batch))

\* What C4 claims of the writers that stamp with NOW(6).
ReadsBackNowWrites ==
  /\ \A c \in ClientIds : \A p \in Snapshots :
       WriteClientSnapshot(ClientSnapshot(c, p, NULL)) /\ last'.error = "OK"
         => MultiReadClientSnapshot({c})'[c] = Some(ClientSnapshot(c, p, now))
  /\ \A c \in ClientIds : \A si \in StartupInfos :
       WriteClientStartupInfo(c, si) /\ last'.error = "OK"
         => ReadClientStartupInfo(c)' =
              Some([payload |-> si, timestamp |-> now])
  /\ \A c \in ClientIds : \A ci \in CrashInfos :
       WriteClientCrashInfo(c, ci) /\ last'.error = "OK"
         => ReadClientCrashInfo(c)' =
              Some([payload |-> ci, timestamp |-> now])

\* C4 as claimed: the latest-value read right after any successful write
\* returns the payload just written with its timestamp, the bulk writer
\* included.
ReadReturnsWritten ==
  [][/\ ReadsBackNowWrites
     /\ \A c \in ClientIds : \A batch \in Batches(c) :
          /\ last' = Call("WriteClientSnapshotHistory", c, "OK")
          /\ WriteClientSnapshotHistory(batch)
          => MultiReadClientSnapshot({c})'[c] = Some(Newest(batch))]_vars

\* C4 as amended: the same, the bulk writer only when the batch's newest
\* timestamp is later than both stored pointers (or the pointer is null).
ReadReturnsWrittenIfNewest ==
  [][/\ ReadsBackNowWrites
     /\ \A c \in ClientIds : \A batch \in Batches(c) :
          /\ last' = Call("WriteClientSnapshotHistory", c, "OK")
          /\ WriteClientSnapshotHistory(batch)
          /\ \/ clients[c].last_snapshot_timestamp = NULL
             \/ clients[c].last_snapshot_timestamp < Max(BatchTimestamps(batch))
          /\ \/ clients[c].last_startup_timestamp = NULL
             \/ clients[c].last_startup_timestamp < Max(BatchTimestamps(batch))
          => MultiReadClientSnapshot({c})'[c] = Some(Newest(batch))]_vars

\* Right after a bulk write that moved both pointers past an older stored
\* snapshot, the read returns a snapshot.
ReadReturnsWrittenWitness ==
  \E c \in DOMAIN clients :
    /\ last = Call("WriteClientSnapshotHistory", c, "OK")
    /\ clients[c].last_snapshot_timestamp = clients[c].last_startup_timestamp
    /\ MultiReadClientSnapshot({c})[c] # Absent
    /\ \E r \in snapshot_history :
         r.client_id = c /\ r.timestamp < clients[c].last_snapshot_timestamp

\* C5: a history write that names a client without a clients row reports
\* UnknownClientError and leaves the clients table and every history table
\* as they were.
UnknownClientWriteFails ==
  [][\A c \in ClientIds \ DOMAIN clients :
       /\ last'.client_ids = {c}
       /\ \/ \E p \in Snapshots : WriteClientSnapshot(ClientSnapshot(c, p, NULL))
          \/ \E batch \in Batches(c) : WriteClientSnapshotHistory(batch)
          \/ \E si \in StartupInfos : WriteClientStartupInfo(c, si)
          \/ \E ci \in CrashInfos : WriteClientCrashInfo(c, ci)
          \/ \E st \in [payload : {"cpu1"}, timestamp : {NULL}] :
               WriteClientStats(c, st)
       => /\ last'.error = "UnknownClientError"
          /\ UNCHANGED <<clients, histories>>]_vars

\* A stats write has just failed for a client that has no row, while the
\* other client has history.
UnknownClientWriteFailsWitness ==
  /\ last.op = "WriteClientStats"
  /\ last.error = "UnknownClientError"
  /\ last.client_ids \cap DOMAIN clients = {}
  /\ snapshot_history # {}
  /\ crash_history # {}

LatestReadsAbsent(c) ==
  /\ MultiReadClientSnapshot({c})[c] = Absent
  /\ ReadClientStartupInfo(c) = Absent
  /\ ReadClientCrashInfo(c) = Absent
  /\ c \notin DOMAIN MultiReadClientMetadata({c})

\* C8: DeleteClient on an existing client succeeds and removes its clients
\* row, and from then on, for as long as the client has no row, each of its
\* latest-value reads returns an absent value.
DeletedClientReadsAbsent ==
  [][/\ \A c \in DOMAIN clients :
          DeleteClient(c) => last'.error = "OK" /\ c \notin DOMAIN clients'
     /\ \A c \in ClientIds \ DOMAIN clients' :
          /\ MultiReadClientSnapshot({c})'[c] = Absent
          /\ ReadClientStartupInfo(c)' = Absent
          /\ ReadClientCrashInfo(c)' = Absent
          /\ c \notin DOMAIN MultiReadClientMetadata({c})']_vars

\* A client has just been deleted while the other one still reads back a
\* snapshot.
DeletedClientReadsAbsentWitness ==
  \E c \in ClientIds \ DOMAIN clients : \E d \in DOMAIN clients :
    /\ last = Call("DeleteClient", c, "OK")
    /\ LatestReadsAbsent(c)
    /\ ~LatestReadsAbsent(d)

AddLabelsAllOrNothing ==
  [][\A cs \in SUBSET ClientIds : \A owner \in Owners :
     \A ls \in SUBSET Labels : \A skips_fk \in BOOLEAN :
       /\ cs \ DOMAIN clients # {}
       /\ ls # {}
       /\ MultiAddClientLabels(cs, owner, ls, skips_fk)
       => /\ last'.error = "AtLeastOneUnknownClientError"
          /\ UNCHANGED client_labels]_vars

RECURSIVE Sum(_)
Sum(seq) == IF seq = <<>> THEN 0 ELSE Head(seq) + Sum(Tail(seq))

\* ceil(n / b)
CeilDiv(n, b) == (n + b - 1) \div b

\* C9: with batch_size >= 1 and no stats written meanwhile, a purge over n
\* eligible rows ends having yielded exactly ceil(n / batch_size) counts,
\* each equal to batch_size except possibly the last, all strictly positive
\* (no trailing 0, nothing at all when n = 0), summing to n; until then every
\* batch takes rows, so the purge ends within ceil(n / batch_size) + 1 steps.
PurgeYieldsCeilCounts ==
  purge.pc \in {"running", "done"} =>
    LET y == purge.yielded
        b == purge.batch_size
        left == Cardinality(Eligible(purge.cutoff_time))
    IN /\ \A i \in DOMAIN y : y[i] > 0 /\ (i < Len(y) => y[i] = b)
       /\ Len(y) <= CeilDiv(purge.n, b)
       /\ purge.pc = "running" =>
            /\ Sum(y) + left = purge.n
            /\ left > 0 => (\A i \in DOMAIN y : y[i] = b)
       /\ purge.pc = "done" =>
            /\ Len(y) = CeilDiv(purge.n, b)
            /\ Sum(y) = purge.n

\* A purge has ended over a number of rows that is a multiple of the batch
\* size, in more than one batch, while rows at or after the cutoff remain.
PurgeYieldsCeilCountsWitness ==
  /\ purge.pc = "done"
  /\ purge.batch_size = 2
  /\ purge.yielded = <<2, 2>>
  /\ client_stats # {}

\* The clients counted in a cell: those with statistic value v whose
\* last_ping passes the test against the bucket's cutoff.
ActiveAtOrAfter(v, d) ==
  { c \in DOMAIN clients : /\ clients[c].last_platform = v
                           /\ clients[c].last_ping # NULL
                           /\ clients[c].last_ping >= now - d * Day }

ActiveAfter(v, d) ==
  { c \in DOMAIN clients : /\ clients[c].last_platform = v
                           /\ clients[c].last_ping # NULL
                           /\ clients[c].last_ping > now - d * Day }

HasGRRLabel(c, l) == LabelRow(c, "GRR", l) \in client_labels

\* The count of a cell of a result, 0 for a cell the result leaves out.
Cell(cells, key) == IF key \in DOMAIN cells THEN cells[key] ELSE 0

Platforms == {p.os : p \in Snapshots} \cup {None}

CountsAre(Active(_, _)) ==
  last.op = "CountClientPlatformsByLabel" =>
    \A d \in last.day_buckets : \A v \in Platforms :
      /\ Cell(last.result.totals, <<v, d>>) = Cardinality(Active(v, d))
      /\ \A l \in Labels :
           Cell(last.result.labels, <<l, v, d>>) =
             Cardinality({c \in Active(v, d) : HasGRRLabel(c, l)})

\* C10 as claimed: every total is the number of clients with that platform
\* whose last_ping is at or after now - N days, and every per-label figure
\* the number of those carrying the label under owner GRR.
CountsActiveAtOrAfterCutoff == CountsAre(ActiveAtOrAfter)

\* C10 as amended: the same with last_ping strictly after the cutoff; a
\* client whose last_ping equals the cutoff is not counted.
CountsActiveAfterCutoff == CountsAre(ActiveAfter)

\* Two clients of one platform, one pinging after the one-day cutoff and the
\* other exactly at it: the one-day total is 1 and the two-day total 2.  One
\* of them carries a GRR label, and some label belongs to another owner.
CountsActiveAfterCutoffWitness ==
  /\ last.op = "CountClientPlatformsByLabel"
  /\ last.day_buckets = DayBuckets
  /\ \E c \in DOMAIN clients : clients[c].last_ping = now - Day
  /\ Cell(last.result.totals, <<"Linux", 1>>) = 1
  /\ Cell(last.result.totals, <<"Linux", 2>>) = 2
  /\ Cell(last.result.labels, <<"l1", "Linux", 2>>) = 1
  /\ \E r \in client_labels : r.owner_username # "GRR"

\* ---------------------------------------------------------------- C11
\* The snapshot history rows of a client.
SnapshotsOf(c) == {r \in snapshot_history : r.client_id = c}

\* The newest snapshot history row of a client that has one.
NewestSnapshotOf(c) ==
  CHOOSE r \in SnapshotsOf(c) : \A x \in SnapshotsOf(c) : x.timestamp <= r.timestamp

MinLastPings == {NULL} \cup Clock

SnapshotReadYieldsShell ==
  \A c \in ClientIds \ DOMAIN clients :
    /\ c \notin DOMAIN MultiReadClientMetadata({c})
    /\ MultiReadClientSnapshot({c})[c] =
         Some([ client_id |-> c, os |-> None, version |-> None,
                uname |-> None, startup_info |-> None, timestamp |-> NULL ])

\* C12 as amended: for a requested client without a clients row,
\* MultiReadClientMetadata has no key, whereas MultiReadClientSnapshot keeps
\* the key and maps it to None; it maps a client that has a row but no
\* snapshot pointer to None too, while MultiReadClientMetadata returns that
\* client's metadata.
SnapshotReadYieldsNone ==
  \A client_ids \in SUBSET ClientIds : \A c \in client_ids :
    /\ c \notin DOMAIN clients =>
         /\ c \notin DOMAIN MultiReadClientMetadata(client_ids)
         /\ c \in DOMAIN MultiReadClientSnapshot(client_ids)
         /\ MultiReadClientSnapshot(client_ids)[c] = Absent
    /\ (c \in DOMAIN clients /\ clients[c].last_snapshot_timestamp = NULL) =>
         /\ c \in DOMAIN MultiReadClientMetadata(client_ids)
         /\ c \in DOMAIN MultiReadClientSnapshot(client_ids)
         /\ MultiReadClientSnapshot(client_ids)[c] = Absent

\* Of the two requested clients one has no row and reads as None, the other
\* has a snapshot and reads it back.
SnapshotReadYieldsNoneWitness ==
  \E c \in ClientIds \ DOMAIN clients : \E d \in DOMAIN clients :
    /\ MultiReadClientSnapshot({c, d})[c] = Absent
    /\ MultiReadClientSnapshot({c, d})[d] # Absent
    /\ DOMAIN MultiReadClientMetadata({c, d}) = {d}

\* ---------------------------------------------------------------- C13
StartTimes == {NULL} \cup Clock

\* C13: ListClientsForKeywords(keywords, start_time) returns a mapping whose
\* keys are exactly the requested keywords, each mapped to exactly the
\* clients that have a row for the keyword with a timestamp at or after
\* start_time (every such client when start_time is not given); a keyword
\* without a match maps to the empty list.
ListClientsKeysAreRequested ==
  \A keywords \in SUBSET Keywords : \A start_time \in StartTimes :
    LET ret == ListClientsForKeywords(keywords, start_time)
    IN /\ ret.error = "OK"
       /\ DOMAIN ret.result = keywords
       /\ \A kw \in keywords :
            ret.result[kw] =
              { c \in ClientIds :
                  \E r \in client_keywords :
                    /\ r.client_id = c
                    /\ r.keyword = kw
                    /\ start_time # NULL => r.timestamp >= start_time }

\* ---------------------------------------------------------------- C14
\* The clients column an argument of WriteClientMetadata is stored in.
Column(f) ==
  IF f = "fleetspeak_validation_info" THEN "last_fleetspeak_validation_info"
  ELSE f

Supplied(m, f) == IF f \in StringArguments THEN m[f] # None ELSE m[f] # NULL

\* C14: WriteClientMetadata always succeeds and leaves a clients row; each
\* argument it is given is stored, each column whose argument is not given
\* keeps its value, as do the three history pointers and the three columns
\* copied from the snapshot, except last_fleetspeak_validation_info, which
\* becomes NULL when not given.  For a client without a row the columns start
\* from NULL, so the row is created with NULL pointers.  No other row changes.
MetadataUpdateIsSparse ==
  [][\A c \in ClientIds : \A m \in MetadataInputs :
       /\ last' = Call("WriteClientMetadata", c, "OK")
       /\ WriteClientMetadata(c, m)
       =>
       LET old == IF c \in DOMAIN clients THEN clients[c]
                  ELSE [col \in DOMAIN NewClient |-> NewClient[col]]
       IN /\ DOMAIN clients' = DOMAIN clients \cup {c}
          /\ \A x \in DOMAIN clients \ {c} : clients'[x] = clients[x]
          /\ \A f \in (StringArguments \cup TimeArguments)
                        \ {"fleetspeak_validation_info"} :
               clients'[c][Column(f)] =
                 IF Supplied(m, f) THEN m[f] ELSE old[Column(f)]
          /\ clients'[c].last_fleetspeak_validation_info =
               m.fleetspeak_validation_info
          /\ \A col \in {"last_snapshot_timestamp", "last_startup_timestamp",
                         "last_crash_timestamp", "last_version_string",
                         "last_platform", "last_platform_release"} :
               clients'[c][col] = old[col]
          /\ UNCHANGED <<histories, indexes>>]_vars

\* Right after a metadata write the row holds a certificate, a last_ping and
\* a snapshot pointer, which no single call of the model sets together with
\* a NULL validation info and a NULL last_ip.
MetadataUpdateIsSparseWitness ==
  \E c \in DOMAIN clients :
    /\ last = Call("WriteClientMetadata", c, "OK")
    /\ clients[c].certificate # None
    /\ clients[c].last_ping # NULL
    /\ clients[c].last_ip = None
    /\ clients[c].last_fleetspeak_validation_info = None
    /\ clients[c].last_snapshot_timestamp # NULL
    /\ clients[c].last_platform = "Linux"

\* ---------------------------------------------------------------- C15
\* The arguments a call of WriteClientMetadata supplies.
SuppliedBy(s) ==
  {f \in StringArguments \cup TimeArguments : Supplied(inflight[s].m, f)}

\* Two calls for one client with disjoint arguments have both committed.
DisjointWritesDone ==
  /\ \A s \in Sessions : inflight[s].pc = "committed"
  /\ \A s, t \in Sessions :
       s # t => /\ inflight[s].client_id = inflight[t].client_id
                /\ SuppliedBy(s) \cap SuppliedBy(t) = {}

\* After both calls, every one of `arguments` that either call supplied holds
\* the value that call supplied.
SuppliedHold(arguments) ==
  \A s \in Sessions : \A f \in SuppliedBy(s) \cap arguments :
    clients[inflight[s].client_id][Column(f)] = inflight[s].m[f]

\* C15 as claimed: after two concurrent WriteClientMetadata calls for one
\* client with disjoint sets of arguments, in every interleaving, each
\* argument either call supplied holds the value that call supplied.
DisjointWritesDoNotClobber ==
  DisjointWritesDone => SuppliedHold(StringArguments \cup TimeArguments)

\* C15 as amended: the same for every argument but
\* fleetspeak_validation_info; last_fleetspeak_validation_info holds what the
\* call whose statement ran last supplied, NULL when it supplied none.
DisjointWritesKeepAllButValidationInfo ==
  DisjointWritesDone =>
    /\ SuppliedHold((StringArguments \cup TimeArguments)
                      \ {"fleetspeak_validation_info"})
    /\ \A s \in Sessions :
         inflight[s].order = Cardinality(Sessions) =>
           clients[inflight[s].client_id].last_fleetspeak_validation_info =
             inflight[s].m.fleetspeak_validation_info

\* Both calls have committed, one having supplied a certificate and the other
\* a last_ping, and the row holds both.
DisjointWritesKeepAllButValidationInfoWitness ==
  /\ DisjointWritesDone
  /\ \E s, t \in Sessions :
       /\ SuppliedBy(s) = {"certificate"}
       /\ SuppliedBy(t) = {"last_ping"}
       /\ inflight[s].order < inflight[t].order
       /\ clients[inflight[s].client_id].certificate = "cert1"
       /\ clients[inflight[s].client_id].last_ping = now

\* ---------------------------------------------------------------- C16
\* C16: in every reachable state, for every client whose
\* last_snapshot_timestamp is not NULL, last_version_string, last_platform
\* and last_platform_release equal the version, os and uname of the snapshot
\* history row the pointer designates.
DenormalizedFieldsInSync ==
  \A c \in DOMAIN clients :
    clients[c].last_snapshot_timestamp # NULL =>
      \E r \in snapshot_history :
        /\ r.client_id = c
        /\ r.timestamp = clients[c].last_snapshot_timestamp
        /\ clients[c].last_version_string = r.payload.version
        /\ clients[c].last_platform = r.payload.os
        /\ clients[c].last_platform_release = r.payload.uname

\* ---------------------------------------------------------------- C17
\* The clients the filters of a scan select, whatever the cursor.
ScanMatching(r) ==
  {c \in DOMAIN clients :
     LastPingFilters(clients[c], r.min_last_ping, r.max_last_ping)}

\* C17: a scan of last pings over a table that is not written meanwhile
\* yields only non-empty batches of at most batch_size entries; the cursor of
\* each query is strictly greater than the one before and is the greatest
\* client id of the batch before; no client is in two batches and every entry
\* carries the client's last_ping; every batch before the last one yielded is
\* full; the scan never runs more queries than (matching clients) div
\* batch_size + 1, so it terminates; and once it is exhausted the batches
\* hold exactly the clients that match the filters.
ScanYieldsEachMatchingClientOnce ==
  \A s \in Sessions :
    inflight[s].pc \in {"scanning", "exhausted"} =>
      LET r == inflight[s]
          batches == r.yielded
          matching == ScanMatching(r)
      IN  /\ \A i \in DOMAIN batches :
               /\ DOMAIN batches[i] # {}
               /\ Cardinality(DOMAIN batches[i]) <= r.batch_size
               /\ \A c \in DOMAIN batches[i] :
                    /\ c \in matching
                    /\ batches[i][c] = clients[c].last_ping
               /\ i < Len(batches) =>
                    Cardinality(DOMAIN batches[i]) = r.batch_size
          /\ \A i, j \in DOMAIN batches :
               i < j => \A c \in DOMAIN batches[i], d \in DOMAIN batches[j] :
                          c < d
          /\ \A i \in DOMAIN r.cursors :
               /\ i > 1 => r.cursors[i - 1] < r.cursors[i]
               /\ i > 1 => r.cursors[i] = Max(DOMAIN batches[i - 1])
          /\ Len(r.cursors) <= Cardinality(matching) \div r.batch_size + 1
          /\ r.pc = "exhausted" =>
               /\ UNION {DOMAIN batches[i] : i \in DOMAIN batches} = matching
               /\ Len(r.cursors) =
                    Cardinality(matching) \div r.batch_size + 1
               /\ Len(batches) = CeilDiv(Cardinality(matching), r.batch_size)

\* A scan that ended on an empty query after two full batches: the number of
\* matching clients is a multiple of batch_size, three queries ran and two
\* batches were yielded.
ScanYieldsEachMatchingClientOnceWitness ==
  \E s \in Sessions :
    /\ inflight[s].pc = "exhausted"
    /\ Len(inflight[s].cursors) = 3
    /\ Len(inflight[s].yielded) = 2
    /\ inflight[s].min_last_ping # NULL
    /\ \E c \in DOMAIN clients : c \notin ScanMatching(inflight[s])


\* ---------------------------------------------------------------- C18
\* The rows of a history table of client c whose timestamp lies in
\* [time_from, time_to], a NULL bound being no bound.
RowsBetween(table, c, time_from, time_to) ==
  {r \in table : /\ r.client_id = c
                 /\ time_from # NULL => time_from <= r.timestamp
                 /\ time_to # NULL => r.timestamp <= time_to}

StrictlyDescending(seq) ==
  \A i, j \in DOMAIN seq : i < j => seq[i].timestamp > seq[j].timestamp

\* C18: the history reads of snapshots and of startup infos return, for
\* every client and every range (none, or any pair of optional bounds), one
\* entry per stored row of the client with time_from <= timestamp <= time_to
\* and nothing else, in strictly descending order of timestamp; a returned
\* snapshot is the stored one, stamped, with the startup info stored for the
\* client at the same timestamp.
HistoryReadsInclusiveDescending ==
  \A c \in ClientIds : \A timerange \in Timeranges :
    LET time_from == IF timerange = NoTimerange THEN NULL ELSE timerange[1]
        time_to == IF timerange = NoTimerange THEN NULL ELSE timerange[2]
        snapshots == ReadClientSnapshotHistory(c, timerange)
        startups == ReadClientStartupInfoHistory(c, timerange)
        sn_rows == RowsBetween(snapshot_history, c, time_from, time_to)
        st_rows == RowsBetween(startup_history, c, time_from, time_to)
    IN  /\ StrictlyDescending(snapshots)
        /\ StrictlyDescending(startups)
        /\ Len(snapshots) = Cardinality(sn_rows)
        /\ Len(startups) = Cardinality(st_rows)
        /\ {startups[i] : i \in DOMAIN startups} =
             {Stamped(r) : r \in st_rows}
        /\ {snapshots[i].timestamp : i \in DOMAIN snapshots} =
             {r.timestamp : r \in sn_rows}
        /\ \A i \in DOMAIN snapshots :
             LET t == snapshots[i].timestamp
             IN  /\ HasRow(snapshot_history, c, t)
                 /\ HasRow(startup_history, c, t)
                 /\ snapshots[i] =
                      [Row(snapshot_history, c, t).payload EXCEPT
                         !.startup_info = Row(startup_history, c, t).payload,
                         !.timestamp = t]

\* A client with a snapshot and a later startup info stored on its own: the
\* range from the one timestamp to the other returns both startup infos,
\* newest first, and the one snapshot.
HistoryReadsInclusiveDescendingWitness ==
  \E c \in ClientIds : \E t1, t2 \in Timestamps :
    /\ t1 < t2
    /\ HasRow(snapshot_history, c, t1)
    /\ HasRow(startup_history, c, t2)
    /\ Len(ReadClientStartupInfoHistory(c, <<t1, t2>>)) = 2
    /\ ReadClientStartupInfoHistory(c, <<t1, t2>>)[1].timestamp = t2
    /\ Len(ReadClientSnapshotHistory(c, <<t1, t2>>)) = 1
    /\ Len(ReadClientStartupInfoHistory(c, <<NULL, t1>>)) = 1


\* ---------------------------------------------------------------- C19
\* The greatest of the pointer's value before the round and the timestamps
\* the calls that committed wrote (NULL is below every timestamp).
ExpectedPointer(column) ==
  LET first == CHOOSE s \in Sessions : TRUE
  IN  Max({inflight[first].prior[column]} \cup
          UNION {{inflight[s].batch[i].timestamp : i \in DOMAIN inflight[s].batch}
                   : s \in {t \in Sessions : inflight[t].pc = "committed"}})

\* C19: when two calls of WriteClientSnapshotHistory for the same client
\* have run concurrently, in whatever order the locks let their statements
\* run, and both have returned or raised, each of the two pointers of the
\* client is the greatest of its value before the calls and of all the
\* timestamps written by the calls that committed.
ConcurrentHistoryWritesKeepMax ==
  SnapshotWritersDone =>
    \A c \in {inflight[s].client_id : s \in Sessions} :
      /\ Pointers(c).last_snapshot_timestamp =
           ExpectedPointer("last_snapshot_timestamp")
      /\ Pointers(c).last_startup_timestamp =
           ExpectedPointer("last_startup_timestamp")

\* Both calls were open at the same time, they deadlocked and one was run
\* again, both committed, and the one with the older maximum committed last:
\* the pointers are at the newer maximum.
ConcurrentHistoryWritesKeepMaxWitness ==
  /\ SnapshotWritersDone
  /\ \E s, t \in Sessions :
       /\ inflight[s].pc = "committed" /\ inflight[t].pc = "committed"
       /\ inflight[s].latest_timestamp < inflight[t].latest_timestamp
       /\ inflight[s].order > inflight[t].order
       /\ inflight[s].overlapped \/ inflight[t].overlapped
       /\ inflight[s].retried
       /\ Pointers(inflight[s].client_id).last_snapshot_timestamp =
            inflight[t].latest_timestamp
       /\ inflight[t].prior.last_startup_timestamp # NULL


\* ---------------------------------------------------------------- C20
\* The clients of the tables db with statistic value v whose last_ping is
\* after the cutoff.
ActiveIn(db, statistic, v, cutoff) ==
  {c \in DOMAIN db.clients : /\ db.clients[c][statistic] = v
                             /\ db.clients[c].last_ping # NULL
                             /\ db.clients[c].last_ping > cutoff}

\* C20: whatever writes of last_ping, platform changes, label changes and
\* deletions run between the two queries of CountClientPlatformsByLabel, the
\* result is the one of a single point in time, the beginning of the call's
\* transaction: for every platform and day bucket the total is the number of
\* clients active then, the per-label figure the number of those carrying the
\* label under owner GRR then; so no per-label count exceeds the total of its
\* cell, and no cell of the result holds a zero.
CountsComeFromOnePointInTime ==
  \A s \in Sessions :
    (inflight[s].pc = "returned" /\ Counting(s)) =>
      LET r == inflight[s]
          db == r.at_begin
      IN  /\ \A d \in r.day_buckets : \A v \in Platforms :
                LET active == ActiveIn(db, r.statistic, v,
                                       r.timestamp_buckets[d])
                IN  /\ Cell(r.result.totals, <<v, d>>) = Cardinality(active)
                    /\ \A l \in Labels :
                         /\ Cell(r.result.labels, <<l, v, d>>) =
                              Cardinality({c \in active :
                                 LabelRow(c, "GRR", l) \in db.client_labels})
                         /\ Cell(r.result.labels, <<l, v, d>>) <=
                              Cell(r.result.totals, <<v, d>>)
          /\ \A cell \in DOMAIN r.result.labels : r.result.labels[cell] > 0
          /\ \A cell \in DOMAIN r.result.totals : r.result.totals[cell] > 0
          /\ DOMAIN r.result.totals \subseteq Platforms \X r.day_buckets
          /\ DOMAIN r.result.labels \subseteq
               Labels \X Platforms \X r.day_buckets

\* An aggregation that counted a labelled client, while the tables were
\* written between its two queries so that the second query, reading them
\* as they are, would have found a total below the per-label count; one cell
\* of the result is left out because its count is zero.
CountsComeFromOnePointInTimeWitness ==
  \E s \in Sessions :
    /\ inflight[s].pc = "returned" /\ Counting(s)
    /\ LET r == inflight[s]
           live == TotalCells(Tables, r.statistic, r.timestamp_buckets)
       IN  /\ \E cell \in DOMAIN r.result.labels :
                r.result.labels[cell] > Cell(live, <<cell[2], cell[3]>>)
           /\ \E v \in Platforms, d, e \in r.day_buckets :
                /\ <<v, d>> \notin DOMAIN r.result.totals
                /\ <<v, e>> \in DOMAIN r.result.totals


\* ---------------------------------------------------------------- C21
HistoryWrites ==
  {"WriteClientSnapshot", "WriteClientSnapshotHistory",
   "WriteClientStartupInfo", "WriteClientCrashInfo"}

\* C21: a history write (WriteClientSnapshot, WriteClientSnapshotHistory,
\* WriteClientStartupInfo, WriteClientCrashInfo) reports UnknownClientError
\* only for a client that has no row in the clients table when the call is
\* made, also when the write collides with a stored (client, timestamp) row.
UnknownClientOnlyWithoutRow ==
  [][(/\ last'.op \in HistoryWrites
      /\ last'.error = "UnknownClientError")
       => \A c \in last'.client_ids : c \notin DOMAIN clients]_vars


\* ---------------------------------------------------------------- C22
\* C22: whatever order the engine returns the rows of the query of
\* MultiReadClientFullInfo in, the record of every returned client carries
\* exactly the labels the label index holds for that client, each once.
FullInfoLabelsInAnyRowOrder ==
  last.op = "MultiReadClientFullInfo" =>
    \A c \in DOMAIN last.result :
      LET labels == last.result[c].labels
      IN  /\ {labels[i] : i \in DOMAIN labels} =
               { [name |-> x.label, owner |-> x.owner_username] :
                   x \in {y \in client_labels : y.client_id = c} }
          /\ Len(labels) =
               Cardinality({y \in client_labels : y.client_id = c})


\* ---------------------------------------------------------------- C23
\* All rows of one cid are next to each other.
Contiguous(response) ==
  \A i, j, k \in DOMAIN response :
    (i < j /\ j < k /\ response[i].cid = response[k].cid) =>
      response[j].cid = response[i].cid

\* The cids of a response in row order, each named where it starts.
CidsInRowOrder(response) ==
  LET starts == SelectSeq([i \in DOMAIN response |-> i],
                          LAMBDA i : i = 1 \/ response[i - 1].cid #
                                                response[i].cid)
  IN [n \in DOMAIN starts |-> response[starts[n]].cid]

\* The (name, owner) pairs of the rows of cid c that pass Counts, in row
\* order.
LabelsInRowOrder(response, c, Counts(_)) ==
  LET rows == SelectSeq(response, LAMBDA r : r.cid = c /\ Counts(r))
  IN [i \in DOMAIN rows |->
        [name |-> rows[i].label[1].label,
         owner |-> rows[i].label[1].owner_username]]

GroupsContiguousRows(Counts(_)) ==
  (last.op = "_ResponseToClientsFullInfo" /\ Contiguous(last.response)) =>
    LET cids == CidsInRowOrder(last.response)
    IN  /\ Len(last.yielded) = Len(cids)
        /\ \A n \in DOMAIN cids :
             /\ last.yielded[n][1] = cids[n]
             /\ last.yielded[n][2].labels =
                  LabelsInRowOrder(last.response, cids[n], Counts)
             /\ last.yielded[n][2].last_snapshot.client_id = cids[n]
        /\ \A m, n \in DOMAIN cids : m # n => cids[m] # cids[n]

\* The owner and the label of the row are not NULL.
NotNull(r) == r.label # Absent

\* The owner and the label of the row are neither NULL nor empty.
NotNullNorEmpty(r) ==
  /\ r.label # Absent
  /\ r.label[1].owner_username # ""
  /\ r.label[1].label # ""

\* C23 as claimed: over a response whose rows are contiguous by client id,
\* the grouper yields one record per distinct client id, in row order (an
\* empty response yields nothing), and the record's labels are the (owner,
\* label) pairs of the client's rows in row order, the rows with a NULL owner
\* or label left out.
GrouperKeepsNonNullLabels == GroupsContiguousRows(NotNull)

\* C23 as amended: the same, the rows left out being those whose owner or
\* label is NULL or the empty string.
GrouperKeepsNonEmptyLabels == GroupsContiguousRows(NotNullNorEmpty)

\* A contiguous response of four rows for two clients: a row without label
\* columns, a row with an empty label, and two labels for one client; two
\* records are yielded, the second on the final flush.
GrouperKeepsNonEmptyLabelsWitness ==
  /\ last.op = "_ResponseToClientsFullInfo"
  /\ Contiguous(last.response)
  /\ Len(last.response) = 4
  /\ Len(last.yielded) = 2
  /\ \E i \in DOMAIN last.response : last.response[i].label = Absent
  /\ \E i \in DOMAIN last.response :
       /\ last.response[i].label # Absent
       /\ last.response[i].label[1].label = ""
  /\ \E n \in DOMAIN last.yielded : Len(last.yielded[n][2].labels) = 2


\* ---------------------------------------------------------------- C25
\* C25: the stats table never holds two rows of one (client, timestamp).  A
\* WriteClientStats that succeeds stores its payload under the sample's
\* timestamp, or under the current time when the sample has none, and be the
\* key new or taken, a read of that timestamp afterwards returns the written
\* payload exactly once; a taken key gains no row, a new one gains one, and
\* no other row changes.
StatsOneRowPerTimestamp ==
  [][/\ \A r, q \in client_stats' :
          (r.client_id = q.client_id /\ r.timestamp = q.timestamp) => r = q
     /\ (last'.op = "WriteClientStats" /\ last'.error = "OK") =>
          \A c \in last'.client_ids : \A stats \in StatsSamples :
            WriteClientStats(c, stats) =>
              LET t == IF stats.timestamp = NULL THEN now
                       ELSE stats.timestamp
                  taken == \E r \in client_stats :
                             r.client_id = c /\ r.timestamp = t
              IN  /\ ReadClientStats(c, t, t)' =
                       <<[payload |-> stats.payload, timestamp |-> t]>>
                  /\ Cardinality(client_stats') =
                       Cardinality(client_stats) + (IF taken THEN 0 ELSE 1)
                  /\ \A r \in client_stats :
                       ~(r.client_id = c /\ r.timestamp = t) =>
                         r \in client_stats'
    ]_vars

\* A sample without timestamp was written over a stored one of the current
\* time with the other payload, while the client has an older sample too:
\* reading the whole range returns two payloads, oldest first, the newer one
\* being the one written last.
StatsOneRowPerTimestampWitness ==
  /\ last.op = "WriteClientStats" /\ last.error = "OK"
  /\ \E c \in last.client_ids :
       /\ Len(ReadClientStats(c, 1, MaxTime + 1)) = 2
       /\ ReadClientStats(c, 1, MaxTime + 1)[2] =
            [payload |-> "cpu2", timestamp |-> now]
       /\ ReadClientStats(c, 1, MaxTime + 1)[1].timestamp < now
       /\ ReadClientStats(c, now, now) =
            <<[payload |-> "cpu2", timestamp |-> now]>>


\* ---------------------------------------------------------------- C24
\* C24: in every state, every row of the snapshot history has a row of the
\* startup history with the same client and timestamp, and that row holds
\* the startup info the snapshot was written with.
SnapshotRowsHaveStartupRows ==
  \A h \in snapshot_history :
    /\ HasRow(startup_history, h.client_id, h.timestamp)
    /\ \E p \in Snapshots :
         /\ h.payload.os = p.os
         /\ Row(startup_history, h.client_id, h.timestamp).payload = p.boot

\* A bulk write has stored two snapshots of a client, each with its startup
\* row, next to nothing else in the startup history.
SnapshotRowsHaveStartupRowsWitness ==
  /\ last.op = "WriteClientSnapshotHistory" /\ last.error = "OK"
  /\ Cardinality(snapshot_history) = 2
  /\ Cardinality(startup_history) = 2
  /\ \E h, g \in snapshot_history :
       h.client_id = g.client_id /\ h.payload.os # g.payload.os


\* ---------------------------------------------------------------- C29
\* C29: DeleteClient for a client id that has no row in the clients table
\* raises UnknownClientError and leaves the clients table, every history
\* table and both indexes as they were.
DeleteUnknownClientChangesNothing ==
  [][last'.op = "DeleteClient" =>
       \A c \in ClientIds :
         (c \notin DOMAIN clients /\ DeleteClient(c)) =>
           /\ last'.error = "UnknownClientError"
           /\ UNCHANGED <<clients, histories, indexes>>]_vars

\* DeleteClient has just failed for a client without a row while another
\* client has a snapshot, a startup info and a label.
DeleteUnknownClientChangesNothingWitness ==
  /\ last.op = "DeleteClient" /\ last.error = "UnknownClientError"
  /\ \A c \in last.client_ids : c \notin DOMAIN clients
  /\ snapshot_history # {}
  /\ startup_history # {}
  /\ client_labels # {}


\* ---------------------------------------------------------------- C26
\* The stored rows of one client under one keyword.
KeywordRowsOf(c, keyword) ==
  { r \in client_keywords :
      r.client_id = c /\ r.keyword_hash = Hash(keyword) }

\* The keyword index holds at most one row for a client and a keyword.
OneRowPerKeyword ==
  \A c \in ClientIds, k \in Keywords : Cardinality(KeywordRowsOf(c, k)) <= 1

\* The label index MultiAddClientLabels leaves when it is called in the
\* current state.
LabelsAfterAdd(cs, owner, ls, skips_fk) ==
  IF LabelsError(cs, ls, skips_fk) = "OK"
  THEN LabelsInserted(cs, owner, ls)
  ELSE client_labels

\* A step of MultiAddClientLabels leaves a label index that the same call on
\* the same server leaves as it is.
AddLabelsStepIdempotent ==
  last'.op = "MultiAddClientLabels" =>
    \A cs \in SUBSET ClientIds, ls \in SUBSET Labels, skips_fk \in BOOLEAN :
      MultiAddClientLabels(cs, "GRR", ls, skips_fk) =>
        LabelsAfterAdd(cs, "GRR", ls, skips_fk)' = client_labels'

\* A successful step of MultiAddClientKeywords leaves, for every client and
\* keyword it names, the one row stamped with the time of the call, whether
\* a row was stored before or not, and leaves every other row alone.
AddKeywordsStepRefreshes ==
  (last'.op = "MultiAddClientKeywords" /\ last'.error = "OK") =>
    \A cs \in SUBSET ClientIds, ks \in KeywordSets :
      (MultiAddClientKeywords(cs, ks) /\ cs # {} /\ ks # {}) =>
        /\ \A c \in cs, k \in ks :
             KeywordRowsOf(c, k)' = {KeywordRow(c, k, now)}
        /\ \A c \in ClientIds, k \in Keywords :
             ~(c \in cs /\ k \in ks) =>
               KeywordRowsOf(c, k)' = KeywordRowsOf(c, k)

\* C26: adding labels is idempotent (the label index after MultiAddClientLabels
\* is a fixed point of the same call), and adding keywords never duplicates:
\* the index holds one row per client and keyword, and adding a stored pair
\* again only moves that row's timestamp to the time of the later call.
AddLabelsIdempotentAddKeywordsRefresh ==
  /\ []OneRowPerKeyword
  /\ [][AddLabelsStepIdempotent /\ AddKeywordsStepRefreshes]_vars

\* Client 1 got both keywords at time 1 (the only call that stores k2) and
\* k1 again at time 2: the row of k1 is the one of the later call, the row of
\* k2 is as it was; the label index is not empty either.
AddLabelsIdempotentAddKeywordsRefreshWitness ==
  /\ last.op = "MultiAddClientKeywords" /\ last.error = "OK"
  /\ now = 2
  /\ KeywordRowsOf(1, "k1") = {KeywordRow(1, "k1", 2)}
  /\ KeywordRowsOf(1, "k2") = {KeywordRow(1, "k2", 1)}
  /\ client_labels # {}


\* ---------------------------------------------------------------- C30
\* The clients ListClientsForKeywords lists under one keyword.
ListedFor(keyword) == ListClientsForKeywords({keyword}, NULL).result[keyword]

\* A step of RemoveClientLabels takes away the rows of the client under the
\* owner with a label of the call, and no other row; what MultiReadClientLabels
\* returns loses those labels for the client and is the same for the others.
RemoveLabelsStepExact ==
  last'.op = "RemoveClientLabels" =>
    \A c \in ClientIds, owner \in Owners, ls \in SUBSET Labels :
      RemoveClientLabels(c, owner, ls) =>
        /\ client_labels' =
             client_labels \ { LabelRow(c, owner, l) : l \in ls }
        /\ MultiReadClientLabels(ClientIds)' =
             [x \in ClientIds |->
                IF x = c
                THEN SelectSeq(MultiReadClientLabels({c})[c],
                               LAMBDA k : ~(k.owner = owner /\ k.name \in ls))
                ELSE MultiReadClientLabels({x})[x]]
        /\ UNCHANGED client_keywords

\* A step of RemoveClientKeyword takes away the row of the client under the
\* keyword, and no other row; the client is no longer listed under the
\* keyword, and the other listings are as before.
RemoveKeywordStepExact ==
  last'.op = "RemoveClientKeyword" =>
    \A c \in ClientIds, k \in Keywords :
      RemoveClientKeyword(c, k) =>
        /\ client_keywords' =
             { r \in client_keywords :
                 ~(r.client_id = c /\ r.keyword = k) }
        /\ ListedFor(k)' = ListedFor(k) \ {c}
        /\ \A k2 \in Keywords \ {k} : ListedFor(k2)' = ListedFor(k2)
        /\ UNCHANGED client_labels

\* C30: RemoveClientLabels removes exactly the rows (client, owner, l) with l
\* among the labels of the call, leaving the same label under another owner,
\* the labels of other clients and the labels not named; RemoveClientKeyword
\* removes only the client's row under the keyword, after which
\* ListClientsForKeywords does not list the client under it.
RemovalsAreExact ==
  [][RemoveLabelsStepExact /\ RemoveKeywordStepExact]_vars

\* After a RemoveClientLabels for client 1, the client has l1 under bob and
\* l2 under GRR but not l1 under GRR, client 2 has l1 under GRR, and client 1
\* is listed under k2 only while client 2 is listed under k1.
RemovalsAreExactWitness ==
  /\ last = Call("RemoveClientLabels", 1, "OK")
  /\ MultiReadClientLabels({1, 2}) =
       (1 :> << [owner |-> "GRR", name |-> "l2"],
                [owner |-> "bob", name |-> "l1"] >>
        @@ 2 :> << [owner |-> "GRR", name |-> "l1"] >>)
  /\ ListedFor("k1") = {2}
  /\ ListedFor("k2") = {1}


\* ---------------------------------------------------------------- C27
\* A batch of the purge deletes only rows stamped before the cutoff, whatever
\* was written between the batches.
PurgeBatchTakesOnlyOlderRows ==
  last'.op = "_DeleteClientStatsBatch" =>
    \A r \in client_stats \ client_stats' : r.timestamp < purge.cutoff_time

\* The batch that ends a purge of batch size 1 or more leaves no row stamped
\* before the cutoff.
PurgeEndsWithNoOlderRow ==
  (/\ last'.op = "_DeleteClientStatsBatch"
   /\ purge'.pc = "done"
   /\ purge.batch_size >= 1) =>
    \A r \in client_stats' : r.timestamp >= purge.cutoff_time

\* C27: DeleteOldClientStats never deletes a stats row stamped at or after
\* the cutoff, however its separately committed batches interleave with
\* WriteClientStats; and when it has run to its end with a batch size of 1 or
\* more, no row stamped before the cutoff is left.
PurgeDeletesExactlyOlderRows ==
  [][PurgeBatchTakesOnlyOlderRows /\ PurgeEndsWithNoOlderRow]_vars

\* A purge has ended after deleting more rows than there were to delete when
\* it began, so rows written beside it were taken too, and rows stamped at
\* the cutoff and after it are still stored.
PurgeDeletesExactlyOlderRowsWitness ==
  /\ purge.pc = "done"
  /\ purge.batch_size >= 1
  /\ Sum(purge.yielded) > purge.n
  /\ \E r \in client_stats : r.timestamp = purge.cutoff_time
  /\ \E r \in client_stats : r.timestamp > purge.cutoff_time
  /\ Eligible(purge.cutoff_time) = {}


\* ---------------------------------------------------------------- C28
\* C28: in a scan of last pings whose batches are separate transactions,
\* with clients created, deleted and pinging between the batches, no client
\* id is yielded in more than one batch, and every client id of a batch is
\* strictly greater than every client id of the batches before it.
ScanBatchesStrictlyAscend ==
  \A s \in Sessions :
    inflight[s].pc \in {"scanning", "exhausted"} =>
      LET batches == inflight[s].yielded
      IN  \A i, j \in DOMAIN batches :
            i < j =>
              /\ DOMAIN batches[i] \cap DOMAIN batches[j] = {}
              /\ \A c \in DOMAIN batches[i], d \in DOMAIN batches[j] : c < d

\* An unfiltered scan that has yielded two batches is still running; a
\* client of the first batch has been deleted since, and the smallest client
\* id is stored but was not yielded: its row was created after the first
\* batch had passed it.
ScanBatchesStrictlyAscendWitness ==
  LET r == inflight[Scanner]
  IN  /\ r.pc = "scanning"
      /\ r.min_last_ping = NULL
      /\ Len(r.yielded) = 2
      /\ \E c \in DOMAIN r.yielded[1] : c \notin DOMAIN clients
      /\ 1 \in DOMAIN clients
      /\ 1 \notin DOMAIN r.yielded[1] \cup DOMAIN r.yielded[2]


====
